---- MODULE Spec2Model ----
(***************************************************************************)
(* Model of the spreadsheet range / pivot-table compiler of the Google     *)
(* Workspace MCP server (tools/sheets.ts and schemas/sheets.ts).           *)
(*                                                                         *)
(* A JavaScript string is a sequence of one-character strings, so that     *)
(* "A1:E" is <<"A", "1", ":", "E">>.  A JavaScript value whose runtime     *)
(* type matters (typeof, truthiness, undefined) is a tagged record.        *)
(***************************************************************************)
EXTENDS Integers, Sequences, FiniteSets, TLC

VARIABLES
    arg,      \* the argument of the helper function under call
    ret,      \* what the call produced: Pending, Return(v) or Throw(message)
    params,   \* params[i]: the input of tool invocation i
    handler,  \* handler[i]: the locals of invocation i and where it stands
    sheets,   \* the spreadsheet at the service: its sheets, in order
    written   \* the pivot tables the service has stored: <<invocation, sheet id>>

vars == <<arg, ret, params, handler, sheets, written>>

toolVars == <<params, handler, sheets, written>>

-----------------------------------------------------------------------------
(* Bounds of the model.                                                    *)

\* longest column-letter argument handed to columnLetterToIndex
MaxLetters == 3
\* longest free-form range string handed to parseA1Range
MaxRangeLen == 4

\* largest value_index of a sort_by_value
MaxValueIndex == 1

\* longest list of filters handed to buildPivotFilters
MaxFilters == 2

\* most groups of a manual rule, and most items of one of its groups
MaxGroups == 2
MaxItems == 2

-----------------------------------------------------------------------------
(* Characters and strings.                                                 *)

UpperLetters ==
    <<"A", "B", "C", "D", "E", "F", "G", "H", "I", "J", "K", "L", "M",
      "N", "O", "P", "Q", "R", "S", "T", "U", "V", "W", "X", "Y", "Z">>

LowerLetters ==
    <<"a", "b", "c", "d", "e", "f", "g", "h", "i", "j", "k", "l", "m",
      "n", "o", "p", "q", "r", "s", "t", "u", "v", "w", "x", "y", "z">>

DigitChars == <<"0", "1", "2", "3", "4", "5", "6", "7", "8", "9">>

IsIn(c, table) == \E i \in 1..Len(table) : table[i] = c

IndexIn(c, table) == CHOOSE i \in 1..Len(table) : table[i] = c

\* String.prototype.charCodeAt for one character (UTF-16 code unit)
charCodeAt(c) ==
    IF IsIn(c, UpperLetters) THEN 64 + IndexIn(c, UpperLetters)
    ELSE IF IsIn(c, LowerLetters) THEN 96 + IndexIn(c, LowerLetters)
    ELSE IF IsIn(c, DigitChars) THEN 47 + IndexIn(c, DigitChars)
    ELSE CASE c = " " -> 32
           [] c = "!" -> 33
           [] c = "$" -> 36
           [] c = "'" -> 39
           [] c = ":" -> 58
           [] c = "=" -> 61

\* String.prototype.toUpperCase, one character
toUpperCaseChar(c) ==
    IF IsIn(c, LowerLetters) THEN UpperLetters[IndexIn(c, LowerLetters)] ELSE c

\* String.prototype.toUpperCase
toUpperCase(s) == [i \in 1..Len(s) |-> toUpperCaseChar(s[i])]

\* All strings over the characters cs of length lo..hi
StringsOver(cs, lo, hi) == UNION {[1..n -> cs] : n \in lo..hi}

-----------------------------------------------------------------------------
(* Outcome of a call.                                                      *)

Pending == [t |-> "pending"]
Return(v) == [t |-> "return", v |-> v]
Throw(message) == [t |-> "throw", message |-> message]

-----------------------------------------------------------------------------
(* columnLetterToIndex                                                     *)

\* for (let i = 0; i < upper.length; i++) index = index * 26 + (code - 64)
RECURSIVE columnLetterFold(_, _, _)
columnLetterFold(upper, i, index) ==
    IF i > Len(upper) THEN index
    ELSE columnLetterFold(upper, i + 1, index * 26 + (charCodeAt(upper[i]) - 64))

\* columnLetterToIndex returning the one-based fold, the final "- 1" lost
columnLetterToIndexOneBased(letter) == columnLetterFold(toUpperCase(letter), 1, 0)

\* columnLetterToIndex without toUpperCase
columnLetterToIndexCaseSensitive(letter) == columnLetterFold(letter, 1, 0) - 1

columnLetterToIndex(letter) == columnLetterFold(toUpperCase(letter), 1, 0) - 1

-----------------------------------------------------------------------------
(* parseA1Range                                                            *)

\* String.prototype.includes for a one-character needle
includes(s, c) == \E i \in 1..Len(s) : s[i] = c

\* String.prototype.split for a one-character separator: every piece
RECURSIVE split(_, _)
split(s, sep) ==
    IF ~includes(s, sep) THEN <<s>>
    ELSE LET k == CHOOSE i \in 1..Len(s) :
                    s[i] = sep /\ \A j \in 1..(i - 1) : s[j] # sep
         IN  <<SubSeq(s, 1, k - 1)>> \o split(SubSeq(s, k + 1, Len(s)), sep)

\* s.replace(/'/g, ""): every quote removed
replaceQuotesAll(s) == SelectSeq(s, LAMBDA c : c # "'")

\* s.replace(/^'|'$/g, ""): one quote off the front, then one off the end
\* of what is left
replaceQuotes(s) ==
    LET rest == IF Len(s) >= 1 /\ s[1] = "'" THEN Tail(s) ELSE s
    IN  IF Len(rest) >= 1 /\ rest[Len(rest)] = "'"
        THEN SubSeq(rest, 1, Len(rest) - 1)
        ELSE rest

\* parseInt(digits, 10) of a string of decimal digits
RECURSIVE parseIntFold(_, _, _)
parseIntFold(digits, i, value) ==
    IF i > Len(digits) THEN value
    ELSE parseIntFold(digits, i + 1, value * 10 + (charCodeAt(digits[i]) - 48))

parseInt(digits) == parseIntFold(digits, 1, 0)

IsLetterChar(c) == IsIn(c, UpperLetters) \/ IsIn(c, LowerLetters)

IsDigitChar(c) == IsIn(c, DigitChars)

Null == [t |-> "null"]

\* the number of leading characters of ref that [A-Z]+ (flag i) consumes
leadingLetters(ref) ==
    CHOOSE k \in 0..Len(ref) :
        /\ \A i \in 1..k : IsLetterChar(ref[i])
        /\ k < Len(ref) => ~IsLetterChar(ref[k + 1])

\* matchRef with the ^ anchor lost: /([A-Z]+)(\d*)$/i finds the reference at
\* the end of the text
matchRefUnanchored(ref) ==
    LET ok(j) == LET tail == SubSeq(ref, j, Len(ref))
                     k == leadingLetters(tail)
                 IN  k >= 1 /\ \A i \in (k + 1)..Len(tail) : IsDigitChar(tail[i])
    IN  IF \E j \in 1..Len(ref) : ok(j)
        THEN LET j == CHOOSE j \in 1..Len(ref) :
                        ok(j) /\ \A h \in 1..(j - 1) : ~ok(h)
                 tail == SubSeq(ref, j, Len(ref))
                 k == leadingLetters(tail)
             IN  [t |-> "match", letters |-> SubSeq(tail, 1, k),
                  digits |-> SubSeq(tail, k + 1, Len(tail))]
        ELSE Null

\* ref.match(/^([A-Z]+)(\d*)$/i): null, or the two groups
matchRef(ref) ==
    LET k == leadingLetters(ref)
    IN  IF k >= 1 /\ \A i \in (k + 1)..Len(ref) : IsDigitChar(ref[i])
        THEN [t |-> "match", letters |-> SubSeq(ref, 1, k),
              digits |-> SubSeq(ref, k + 1, Len(ref))]
        ELSE Null

\* the row count assumed when the end reference names no row
DefaultEndRow == 1000

\* startMatch[2] ? parseInt(startMatch[2], 10) - 1 : 0
startRowOf(digits) == IF digits # <<>> THEN parseInt(digits) - 1 ELSE 0

\* endRowOf with the default of the start row used for the end row too
endRowOfNoDefault(digits) == IF digits # <<>> THEN parseInt(digits) ELSE 0

\* endMatch[2] ? parseInt(endMatch[2], 10) : 1000
endRowOf(digits) == IF digits # <<>> THEN parseInt(digits) ELSE DefaultEndRow

\* rangeBounds with the end column left inclusive
rangeBoundsInclusiveEnd(sheetName, startMatch, endMatch) ==
    [sheetName |-> sheetName,
     startCol |-> columnLetterToIndex(startMatch.letters),
     startRow |-> startRowOf(startMatch.digits),
     endCol |-> columnLetterToIndex(endMatch.letters),
     endRow |-> endRowOf(endMatch.digits)]

\* rangeBounds with the columns put in ascending order
rangeBoundsNormalized(sheetName, startMatch, endMatch) ==
    LET first == columnLetterToIndex(startMatch.letters)
        second == columnLetterToIndex(endMatch.letters)
    IN  [sheetName |-> sheetName,
         startCol |-> IF first <= second THEN first ELSE second,
         startRow |-> startRowOf(startMatch.digits),
         endCol |-> (IF first <= second THEN second ELSE first) + 1,
         endRow |-> endRowOf(endMatch.digits)]

\* the record parseA1Range returns from the two matches
rangeBounds(sheetName, startMatch, endMatch) ==
    [sheetName |-> sheetName,
     startCol |-> columnLetterToIndex(startMatch.letters),
     startRow |-> startRowOf(startMatch.digits),
     endCol |-> columnLetterToIndex(endMatch.letters) + 1,
     endRow |-> endRowOf(endMatch.digits)]

InvalidRangeFormat == "Invalid range format"

\* parseA1Range without "|| startRef": a range with no ":" has no end
\* reference to match
parseA1RangeNoDefaultEnd(range) ==
    LET hasSheet == includes(range, "!")
        parts == split(range, "!")
        sheetName == IF hasSheet THEN replaceQuotes(parts[1]) ELSE <<>>
        rangeOnly == IF hasSheet THEN parts[2] ELSE range
        rangeParts == split(rangeOnly, ":")
        startRef == rangeParts[1]
        endRef == IF Len(rangeParts) >= 2 THEN rangeParts[2] ELSE <<>>
        startMatch == matchRef(startRef)
        endMatch == matchRef(endRef)
    IN  IF startMatch = Null \/ endMatch = Null
        THEN Throw(InvalidRangeFormat)
        ELSE Return(rangeBounds(sheetName, startMatch, endMatch))

parseA1Range(range) ==
    LET hasSheet == includes(range, "!")
        parts == split(range, "!")
        sheetName == IF hasSheet THEN replaceQuotes(parts[1]) ELSE <<>>
        rangeOnly == IF hasSheet THEN parts[2] ELSE range
        rangeParts == split(rangeOnly, ":")
        startRef == rangeParts[1]
        \* rangeParts[1] || startRef: undefined and "" are both falsy
        endRef == IF Len(rangeParts) >= 2 /\ rangeParts[2] # <<>>
                  THEN rangeParts[2]
                  ELSE startRef
        startMatch == matchRef(startRef)
        endMatch == matchRef(endRef)
    IN  IF startMatch = Null \/ endMatch = Null
        THEN Throw(InvalidRangeFormat)
        ELSE Return(rangeBounds(sheetName, startMatch, endMatch))

-----------------------------------------------------------------------------
(* JavaScript values whose runtime type the code inspects.                 *)

Undefined == [t |-> "undefined"]
Num(n) == [t |-> "number", v |-> n]
Str(s) == [t |-> "string", v |-> s]
\* a string that is one of the words of an enumeration
Lit(w) == [t |-> "literal", v |-> w]
\* an array
Arr(items) == [t |-> "array", v |-> items]

\* ToBoolean: undefined, null, 0 and "" are falsy
truthy(x) ==
    ~ \/ x.t = "undefined"
      \/ x.t = "null"
      \/ (x.t = "number" /\ x.v = 0)
      \/ (x.t = "string" /\ Len(x.v) = 0)

\* a || b
OrElse(a, b) == IF truthy(a) THEN a ELSE b

\* typeof column === "number" ? column : columnLetterToIndex(column)
resolveColumnIndex(column) ==
    IF column.t = "number" THEN column.v ELSE columnLetterToIndex(column.v)

-----------------------------------------------------------------------------
(* Input schemas (zod).                                                    *)

\* ColumnRefSchema with the regex /[A-Z]+/i, its anchors lost
ColumnRefSchemaUnanchored(x) ==
    \/ x.t = "number" /\ x.v >= 0
    \/ /\ x.t = "string"
       /\ \E i \in 1..Len(x.v) : IsLetterChar(x.v[i])

\* z.union([z.number().int().min(0), z.string().regex(/^[A-Z]+$/i)])
ColumnRefSchema(x) ==
    \/ x.t = "number" /\ x.v >= 0
    \/ /\ x.t = "string"
       /\ Len(x.v) >= 1
       /\ \A i \in 1..Len(x.v) : IsLetterChar(x.v[i])

SummarizeFunctions ==
    {"SUM", "COUNT", "COUNTA", "COUNTUNIQUE", "AVERAGE", "MAX", "MIN",
     "MEDIAN", "PRODUCT", "STDEV", "STDEVP", "VAR", "VARP", "CUSTOM"}

CalculatedDisplayTypes ==
    {"PERCENT_OF_ROW_TOTAL", "PERCENT_OF_COLUMN_TOTAL", "PERCENT_OF_GRAND_TOTAL"}

Accepted == [t |-> "accepted"]
Rejected(message) == [t |-> "rejected", message |-> message]

\* the z.object of PivotValueSchema, before its refinements
PivotValueObject(val) ==
    /\ val.source_column = Undefined \/ ColumnRefSchema(val.source_column)
    /\ val.formula.t \in {"undefined", "string"}
    /\ val.summarize_function \in SummarizeFunctions
    /\ val.name.t \in {"undefined", "string"}
    /\ \/ val.calculated_display_type = Undefined
       \/ /\ val.calculated_display_type.t = "literal"
          /\ val.calculated_display_type.v \in CalculatedDisplayTypes

InvalidInput == "Invalid input"
EitherRequired == "Either source_column or formula is required"
CannotSpecifyBoth == "Cannot specify both source_column and formula"

\* PivotValueSchema with the second refinement left out
PivotValueSchemaOneRefine(val) ==
    IF ~PivotValueObject(val) THEN Rejected(InvalidInput)
    ELSE IF ~(val.source_column # Undefined \/ val.formula # Undefined)
         THEN Rejected(EitherRequired)
    ELSE Accepted

\* PivotValueSchema: the object, then .refine(either).refine(not both)
PivotValueSchema(val) ==
    IF ~PivotValueObject(val) THEN Rejected(InvalidInput)
    ELSE IF ~(val.source_column # Undefined \/ val.formula # Undefined)
         THEN Rejected(EitherRequired)
    ELSE IF ~ ~(val.source_column # Undefined /\ val.formula # Undefined)
         THEN Rejected(CannotSpecifyBoth)
    ELSE Accepted

DateTimeRuleTypes ==
    {"SECOND", "MINUTE", "HOUR", "HOUR_MINUTE", "HOUR_MINUTE_AMPM",
     "DAY_OF_WEEK", "DAY_OF_MONTH", "DAY_OF_YEAR", "DAY_MONTH",
     "MONTH", "QUARTER", "YEAR", "YEAR_MONTH", "YEAR_QUARTER", "YEAR_MONTH_DAY"}

FilterConditionTypes ==
    {"NUMBER_GREATER", "NUMBER_GREATER_THAN_EQ", "NUMBER_LESS",
     "NUMBER_LESS_THAN_EQ", "NUMBER_EQ", "NUMBER_NOT_EQ", "NUMBER_BETWEEN",
     "NUMBER_NOT_BETWEEN", "TEXT_CONTAINS", "TEXT_NOT_CONTAINS",
     "TEXT_STARTS_WITH", "TEXT_ENDS_WITH", "TEXT_EQ", "TEXT_NOT_EQ",
     "DATE_EQ", "DATE_BEFORE", "DATE_AFTER", "DATE_ON_OR_BEFORE",
     "DATE_ON_OR_AFTER", "DATE_BETWEEN", "DATE_NOT_BETWEEN", "DATE_IS_VALID",
     "BLANK", "NOT_BLANK"}

\* z.array(z.union([z.string(), z.number()]))
StringOrNumberArray(a) ==
    a.t = "array" /\ \A k \in 1..Len(a.v) : a.v[k].t \in {"string", "number"}

\* z.union of the three one-key objects; rule.keys are the keys of the rule
GroupRuleSchema(rule) ==
    /\ rule.t = "object"
    /\ \/ "date_time" \in rule.keys /\ rule.date_time.type \in DateTimeRuleTypes
       \/ /\ "histogram" \in rule.keys
          /\ rule.histogram.interval > 0
       \/ /\ "manual" \in rule.keys
          /\ Len(rule.manual.groups) >= 1
          /\ \A g \in 1..Len(rule.manual.groups) :
                StringOrNumberArray(Arr(rule.manual.groups[g].items))

PivotGroupSchema(group) ==
    /\ ColumnRefSchema(group.source_column)
    /\ group.label.t \in {"undefined", "string"}
    /\ group.show_totals \in BOOLEAN
    /\ \/ group.sort_order = Undefined
       \/ /\ group.sort_order.t = "literal"
          /\ group.sort_order.v \in {"ASCENDING", "DESCENDING"}
    /\ \/ group.sort_by_value = Undefined
       \/ /\ group.sort_by_value.t = "object"
          /\ group.sort_by_value.value_index >= 0
    /\ group.group_rule = Undefined \/ GroupRuleSchema(group.group_rule)
    /\ \/ group.group_limit = Undefined
       \/ group.group_limit.t = "number" /\ group.group_limit.v > 0

PivotFilterSchema(filter) ==
    /\ ColumnRefSchema(filter.source_column)
    /\ \/ filter.visible_values = Undefined
       \/ /\ filter.visible_values.t = "array"
          /\ \A k \in 1..Len(filter.visible_values.v) :
                filter.visible_values.v[k].t = "string"
    /\ \/ filter.condition = Undefined
       \/ /\ filter.condition.t = "object"
          /\ filter.condition.type \in FilterConditionTypes
          /\ \/ filter.condition.values = Undefined
             \/ StringOrNumberArray(filter.condition.values)

\* z.array(PivotGroupSchema).optional()
PivotGroupArray(a) ==
    a = Undefined \/ (a.t = "array" /\ \A k \in 1..Len(a.v) : PivotGroupSchema(a.v[k]))

\* z.array(PivotFilterSchema).optional()
PivotFilterArray(a) ==
    a = Undefined \/ (a.t = "array" /\ \A k \in 1..Len(a.v) : PivotFilterSchema(a.v[k]))

PivotValueAccepted(val) == PivotValueSchema(val) = Accepted

\* the z.object of CreatePivotTableSchema, before its refinement
CreatePivotTableObject(data) ==
    /\ Len(data.spreadsheet_id) >= 1
    /\ Len(data.source_range) >= 1
    /\ data.destination_sheet_id.t \in {"undefined", "number"}
    /\ PivotGroupArray(data.rows)
    /\ PivotGroupArray(data.columns)
    /\ data.values.t = "array"
    /\ Len(data.values.v) >= 1
    /\ \A k \in 1..Len(data.values.v) : PivotValueAccepted(data.values.v[k])
    /\ PivotFilterArray(data.filters)
    /\ data.value_layout \in {"HORIZONTAL", "VERTICAL"}

GroupingRequired == "At least one row or column grouping is required"

\* hasGrouping satisfied by an array of any length: data.rows || data.columns
hasGroupingPresent(data) == truthy(data.rows) \/ truthy(data.columns)

\* (data.rows && data.rows.length > 0) || (data.columns && data.columns.length > 0)
hasGrouping(data) ==
    \/ truthy(data.rows) /\ Len(data.rows.v) > 0
    \/ truthy(data.columns) /\ Len(data.columns.v) > 0

CreatePivotTableSchema(data) ==
    IF ~CreatePivotTableObject(data) THEN Rejected(InvalidInput)
    ELSE IF ~hasGrouping(data) THEN Rejected(GroupingRequired)
    ELSE Accepted

-----------------------------------------------------------------------------
(* buildPivotValue                                                         *)

buildPivotValue(val) ==
    [summarizeFunction |-> val.summarize_function,
     sourceColumnOffset |->
        IF val.source_column # Undefined
        THEN Num(resolveColumnIndex(val.source_column))
        ELSE Undefined,
     formula |->
        IF val.source_column = Undefined /\ truthy(val.formula)
        THEN val.formula
        ELSE Undefined,
     name |-> IF truthy(val.name) THEN val.name ELSE Undefined,
     calculatedDisplayType |->
        IF truthy(val.calculated_display_type)
        THEN val.calculated_display_type
        ELSE Undefined]

-----------------------------------------------------------------------------
(* buildGroupRule, buildPivotGroup, buildPivotFilters                      *)

InvalidGroupRule == "Invalid group rule"

\* manualItems filling the list from its end
manualItemsReversed(items) ==
    [k \in 1..Len(items) |->
        IF items[Len(items) + 1 - k].t = "string"
        THEN [stringValue |-> items[Len(items) + 1 - k].v, numberValue |-> Undefined]
        ELSE [stringValue |-> Undefined, numberValue |-> items[Len(items) + 1 - k].v]]

\* items.map(item => typeof item === "string" ? {stringValue} : {numberValue})
manualItems(items) ==
    [k \in 1..Len(items) |->
        IF items[k].t = "string"
        THEN [stringValue |-> items[k].v, numberValue |-> Undefined]
        ELSE [stringValue |-> Undefined, numberValue |-> items[k].v]]

\* buildGroupRule with an empty rule returned where the code throws
buildGroupRuleSilent(rule) ==
    IF "date_time" \in rule.keys
    THEN Return([dateTimeRule |-> [type |-> rule.date_time.type],
                 histogramRule |-> Undefined,
                 manualRule |-> Undefined])
    ELSE IF "histogram" \in rule.keys
    THEN Return([dateTimeRule |-> Undefined,
                 histogramRule |-> [interval |-> rule.histogram.interval,
                                    start |-> rule.histogram.start,
                                    end |-> rule.histogram.end],
                 manualRule |-> Undefined])
    ELSE IF "manual" \in rule.keys
    THEN Return([dateTimeRule |-> Undefined,
                 histogramRule |-> Undefined,
                 manualRule |->
                    [groups |->
                        [g \in 1..Len(rule.manual.groups) |->
                            [groupName |->
                                [stringValue |-> rule.manual.groups[g].group_name],
                             items |-> manualItems(rule.manual.groups[g].items)]]]])
    ELSE Return([dateTimeRule |-> Undefined,
                 histogramRule |-> Undefined,
                 manualRule |-> Undefined])

\* a rule is an object; rule.keys are the property names it has
buildGroupRule(rule) ==
    IF "date_time" \in rule.keys
    THEN Return([dateTimeRule |-> [type |-> rule.date_time.type],
                 histogramRule |-> Undefined,
                 manualRule |-> Undefined])
    ELSE IF "histogram" \in rule.keys
    THEN Return([dateTimeRule |-> Undefined,
                 histogramRule |-> [interval |-> rule.histogram.interval,
                                    start |-> rule.histogram.start,
                                    end |-> rule.histogram.end],
                 manualRule |-> Undefined])
    ELSE IF "manual" \in rule.keys
    THEN Return([dateTimeRule |-> Undefined,
                 histogramRule |-> Undefined,
                 manualRule |->
                    [groups |->
                        [g \in 1..Len(rule.manual.groups) |->
                            [groupName |->
                                [stringValue |-> rule.manual.groups[g].group_name],
                             items |-> manualItems(rule.manual.groups[g].items)]]]])
    ELSE Throw(InvalidGroupRule)

\* valueBucketOf, testing the index instead of the sort_by_value object
valueBucketOfTruthyIndex(group) ==
    IF truthy(group.sort_by_value) /\ group.sort_by_value.value_index # 0
    THEN [t |-> "object", valuesIndex |-> Num(group.sort_by_value.value_index)]
    ELSE IF truthy(group.sort_order)
    THEN [t |-> "object", valuesIndex |-> Undefined]
    ELSE Undefined

\* valueBucketOf without the else-branch of the alphabetical sort
valueBucketOfNoDefault(group) ==
    IF truthy(group.sort_by_value)
    THEN [t |-> "object", valuesIndex |-> Num(group.sort_by_value.value_index)]
    ELSE Undefined

\* pivotGroup.valueBucket: {valuesIndex} for sort_by_value, {} for a sort
\* order alone, not set otherwise
valueBucketOf(group) ==
    IF truthy(group.sort_by_value)
    THEN [t |-> "object", valuesIndex |-> Num(group.sort_by_value.value_index)]
    ELSE IF truthy(group.sort_order)
    THEN [t |-> "object", valuesIndex |-> Undefined]
    ELSE Undefined

\* buildPivotGroup: the group object, or the error of buildGroupRule
buildPivotGroup(group) ==
    LET groupRule == IF truthy(group.group_rule)
                     THEN buildGroupRule(group.group_rule)
                     ELSE Return(Undefined)
    IN  IF groupRule.t = "throw" THEN groupRule
        ELSE Return(
            [sourceColumnOffset |-> resolveColumnIndex(group.source_column),
             showTotals |-> group.show_totals,
             label |-> IF truthy(group.label) THEN group.label ELSE Undefined,
             sortOrder |-> IF truthy(group.sort_order) THEN group.sort_order ELSE Undefined,
             valueBucket |-> valueBucketOf(group),
             groupRule |-> groupRule.v,
             groupLimit |->
                IF truthy(group.group_limit)
                THEN [t |-> "object", countLimit |-> group.group_limit.v]
                ELSE Undefined])

\* the decimal digits of a natural number, most significant first
RECURSIVE digitsOf(_)
digitsOf(n) ==
    IF n < 10 THEN <<DigitChars[n + 1]>>
    ELSE digitsOf(n \div 10) \o <<DigitChars[(n % 10) + 1]>>

\* String(v) for a string or an integer
toStringValue(v) ==
    IF v.t = "string" THEN v.v
    ELSE IF v.v < 0 THEN <<"-">> \o digitsOf(0 - v.v)
    ELSE digitsOf(v.v)

\* buildPivotFilter with "if (condition)" in place of "else if (condition)"
buildPivotFilterBoth(filter) ==
    [columnOffsetIndex |-> resolveColumnIndex(filter.source_column),
     filterCriteria |->
        [visibleValues |->
            IF truthy(filter.visible_values) THEN filter.visible_values ELSE Undefined,
         condition |->
            IF truthy(filter.condition)
            THEN [t |-> "object",
                  type |-> filter.condition.type,
                  values |->
                     IF filter.condition.values = Undefined THEN Undefined
                     ELSE Arr([k \in 1..Len(filter.condition.values.v) |->
                                [userEnteredValue |->
                                    toStringValue(filter.condition.values.v[k])]])]
            ELSE Undefined]]

buildPivotFilter(filter) ==
    [columnOffsetIndex |-> resolveColumnIndex(filter.source_column),
     filterCriteria |->
        [visibleValues |->
            IF truthy(filter.visible_values) THEN filter.visible_values ELSE Undefined,
         condition |->
            IF ~truthy(filter.visible_values) /\ truthy(filter.condition)
            THEN [t |-> "object",
                  type |-> filter.condition.type,
                  values |->
                     IF filter.condition.values = Undefined THEN Undefined
                     ELSE Arr([k \in 1..Len(filter.condition.values.v) |->
                                [userEnteredValue |->
                                    toStringValue(filter.condition.values.v[k])]])]
            ELSE Undefined]]

\* buildPivotFilters leaving out the filters that set no criterion
buildPivotFiltersWithCriteria(filters) ==
    LET kept == SelectSeq(filters,
                    LAMBDA filter : truthy(filter.visible_values) \/ truthy(filter.condition))
    IN  [k \in 1..Len(kept) |-> buildPivotFilter(kept[k])]

\* filters.map(filter => ...)
buildPivotFilters(filters) == [k \in 1..Len(filters) |-> buildPivotFilter(filters[k])]

\* a source_column on its way through the tool: the input schema of the
\* tool first, resolveColumnIndex for what it accepts
resolveColumnRef(column) ==
    IF ~ColumnRefSchema(column)
    THEN Throw(InvalidInput)
    ELSE Return(resolveColumnIndex(column))

\* one element of params.values on its way through the tool: the input
\* schema of the tool first, buildPivotValue for what it accepts
compilePivotValue(val) ==
    LET checked == PivotValueSchema(val)
    IN  IF checked # Accepted
        THEN Throw(checked.message)
        ELSE Return(buildPivotValue(val))

-----------------------------------------------------------------------------
(* The sheets_create_pivot_table tool: one invocation is the input schema  *)
(* of the tool, then the handler, which is cut at its three awaits.        *)

Invocations == {1, 2}

\* handler[i] while no invocation i is under way
NoLocals ==
    [pc |-> "idle",
     parsedRange |-> Undefined,
     sourceSheetId |-> Undefined,
     destinationSheetId |-> Undefined,
     destinationSheetName |-> Undefined,
     pivotRows |-> Undefined,
     pivotColumns |-> Undefined,
     pivotValues |-> Undefined,
     pivotTable |-> Undefined,
     result |-> Undefined,
     calls |-> <<>>,
     replies |-> <<>>,
     thrownAt |-> "none"]

\* the text handleGoogleError makes of a caught error
handleGoogleError(error) == [rendered |-> error]

\* the handler without its catch: the error leaves it and there is no result
catchErrorEscapes(h, error, step) ==
    [h EXCEPT !.pc = "done",
              !.thrownAt = step]

\* catch (error) { return { content: [{ type: "text", text: ... }] } }
catchError(h, error, step) ==
    [h EXCEPT !.pc = "done",
              !.result = [content |-> <<[type |-> "text",
                                         text |-> handleGoogleError(error)]>>,
                          structuredContent |-> Undefined],
              !.thrownAt = step]

\* the rejection of a request promise of the API client
RequestFailed == "Request failed"
SheetNotFound == "Sheet not found in spreadsheet"
FailedToCreate == "Failed to create destination sheet"

\* the three requests the handler sends
getCall(p) == [op |-> "get", spreadsheetId |-> p.spreadsheet_id]

addSheetCall(p, title) ==
    [op |-> "addSheet", spreadsheetId |-> p.spreadsheet_id, title |-> title]

updateCellsCall(p, sheetId, pivotTable) ==
    [op |-> "updateCells", spreadsheetId |-> p.spreadsheet_id,
     sheetId |-> sheetId, pivotTable |-> pivotTable]

\* getSheetIdByName once the metadata has arrived: find by title, throw
\* when !sheet?.properties?.sheetId
getSheetIdByName(dataSheets, sheetName) ==
    IF \E k \in 1..Len(dataSheets) : dataSheets[k].title = sheetName
    THEN LET k == CHOOSE k \in 1..Len(dataSheets) :
                    /\ dataSheets[k].title = sheetName
                    /\ \A j \in 1..(k - 1) : dataSheets[j].title # sheetName
         IN  IF ~truthy(Num(dataSheets[k].sheetId))
             THEN Throw(SheetNotFound)
             ELSE Return(dataSheets[k].sheetId)
    ELSE Throw(SheetNotFound)

\* firstSheetId with the second sheet taken for the first
firstSheetIdSecond(dataSheets) ==
    IF Len(dataSheets) >= 2
    THEN OrElse(Num(dataSheets[2].sheetId), Num(0)).v
    ELSE 0

\* spreadsheet.data.sheets?.[0]?.properties?.sheetId || 0
firstSheetId(dataSheets) ==
    IF Len(dataSheets) >= 1
    THEN OrElse(Num(dataSheets[1].sheetId), Num(0)).v
    ELSE 0

\* the source sheet id from the metadata: by name, or the first sheet's
resolveSourceSheetId(dataSheets, sheetName) ==
    IF truthy(Str(sheetName))
    THEN getSheetIdByName(dataSheets, sheetName)
    ELSE Return(firstSheetId(dataSheets))

\* (array || []).map(buildPivotGroup): the outcome of each element
mapBuildPivotGroup(array) ==
    LET items == IF truthy(array) THEN array.v ELSE <<>>
    IN  [k \in 1..Len(items) |-> buildPivotGroup(items[k])]

\* the first error thrown in a list of outcomes, Null when there is none
firstThrown(outcomes) ==
    IF \E k \in 1..Len(outcomes) : outcomes[k].t = "throw"
    THEN outcomes[CHOOSE k \in 1..Len(outcomes) :
                    /\ outcomes[k].t = "throw"
                    /\ \A j \in 1..(k - 1) : outcomes[j].t # "throw"]
    ELSE Null

returned(outcomes) == [k \in 1..Len(outcomes) |-> outcomes[k].v]

\* the source of the pivot table with rows and columns interchanged
pivotSourceTransposed(h) ==
    [sheetId |-> h.sourceSheetId.v,
     startRowIndex |-> h.parsedRange.startCol,
     startColumnIndex |-> h.parsedRange.startRow,
     endRowIndex |-> h.parsedRange.endCol,
     endColumnIndex |-> h.parsedRange.endRow]

\* pivotTable.source
pivotSource(h) ==
    [sheetId |-> h.sourceSheetId.v,
     startRowIndex |-> h.parsedRange.startRow,
     startColumnIndex |-> h.parsedRange.startCol,
     endRowIndex |-> h.parsedRange.endRow,
     endColumnIndex |-> h.parsedRange.endCol]

\* from "Build pivot groups" to the await of the updateCells request
buildAndUpdate(p, h) ==
    LET rows == mapBuildPivotGroup(p.rows)
        columns == mapBuildPivotGroup(p.columns)
        thrown == firstThrown(rows \o columns)
        pivotRows == returned(rows)
        pivotColumns == returned(columns)
        pivotValues == [k \in 1..Len(p.values.v) |-> buildPivotValue(p.values.v[k])]
        pivotFilters == IF truthy(p.filters)
                        THEN Arr(buildPivotFilters(p.filters.v))
                        ELSE Undefined
        pivotTable ==
            [source |-> pivotSource(h),
             rows |-> IF Len(pivotRows) > 0 THEN Arr(pivotRows) ELSE Undefined,
             columns |-> IF Len(pivotColumns) > 0 THEN Arr(pivotColumns) ELSE Undefined,
             values |-> pivotValues,
             valueLayout |-> p.value_layout,
             filterSpecs |-> pivotFilters]
    IN  IF thrown # Null
        THEN catchError(h, thrown.message, "compile")
        ELSE [h EXCEPT !.pivotRows = pivotRows,
                       !.pivotColumns = pivotColumns,
                       !.pivotValues = pivotValues,
                       !.pivotTable = pivotTable,
                       !.calls = Append(@, updateCellsCall(p, h.destinationSheetId.v,
                                                           pivotTable)),
                       !.pc = "awaitUpdate"]

\* destinationOf with the id tested for truth, not against undefined
destinationOfFalsy(p, h) ==
    LET g == [h EXCEPT !.destinationSheetId = p.destination_sheet_id,
                       !.destinationSheetName = p.destination_sheet_name]
    IN  IF ~truthy(g.destinationSheetId)
        THEN [g EXCEPT !.calls = Append(@, addSheetCall(p, g.destinationSheetName)),
                       !.pc = "awaitAddSheet"]
        ELSE buildAndUpdate(p, g)

\* from "Determine destination sheet ID" to the next await
destinationOf(p, h) ==
    LET g == [h EXCEPT !.destinationSheetId = p.destination_sheet_id,
                       !.destinationSheetName = p.destination_sheet_name]
    IN  IF g.destinationSheetId = Undefined
        THEN [g EXCEPT !.calls = Append(@, addSheetCall(p, g.destinationSheetName)),
                       !.pc = "awaitAddSheet"]
        ELSE buildAndUpdate(p, g)

\* the tool is called: the request waits for the input schema
Rejection(message) == [rejected |-> message]

ValidateRejects(i) ==
    /\ handler[i].pc = "called"
    /\ CreatePivotTableSchema(params[i]) # Accepted
    /\ handler' = [handler EXCEPT
            ![i] = [@ EXCEPT !.pc = "done",
                             !.result = Rejection(CreatePivotTableSchema(params[i]).message),
                             !.thrownAt = "schema"]]
    /\ UNCHANGED <<arg, ret, params, sheets, written>>

ValidateAccepts(i) ==
    /\ handler[i].pc = "called"
    /\ CreatePivotTableSchema(params[i]) = Accepted
    /\ handler' = [handler EXCEPT ![i] = [@ EXCEPT !.pc = "handler"]]
    /\ UNCHANGED <<arg, ret, params, sheets, written>>

\* the handler up to its first await: parseA1Range throws
ParseThrows(i) ==
    /\ handler[i].pc = "handler"
    /\ parseA1Range(params[i].source_range).t = "throw"
    /\ handler' = [handler EXCEPT
            ![i] = catchError(@, parseA1Range(params[i].source_range).message, "parse")]
    /\ UNCHANGED <<arg, ret, params, sheets, written>>

\* the handler up to its first await: the metadata request is sent
ParseReturns(i) ==
    /\ handler[i].pc = "handler"
    /\ parseA1Range(params[i].source_range).t = "return"
    /\ handler' = [handler EXCEPT
            ![i] = [@ EXCEPT !.parsedRange = parseA1Range(params[i].source_range).v,
                             !.calls = Append(@, getCall(params[i])),
                             !.pc = "awaitGet"]]
    /\ UNCHANGED <<arg, ret, params, sheets, written>>

\* sheets.spreadsheets.get rejects
GetRejects(i) ==
    /\ handler[i].pc = "awaitGet"
    /\ handler' = [handler EXCEPT
            ![i] = catchError([@ EXCEPT !.replies = Append(@, Throw(RequestFailed))],
                              RequestFailed, "resolve")]
    /\ UNCHANGED <<arg, ret, params, sheets, written>>

\* afterGet with the lookup error swallowed and sheet 0 taken as the source
afterGetFallback(p, h, dataSheets) ==
    LET g == [h EXCEPT !.replies = Append(@, Return(dataSheets))]
        source == resolveSourceSheetId(dataSheets, h.parsedRange.sheetName)
    IN  IF source.t = "throw"
        THEN destinationOf(p, [g EXCEPT !.sourceSheetId = Num(0)])
        ELSE destinationOf(p, [g EXCEPT !.sourceSheetId = Num(source.v)])

\* the handler from the metadata to its next await, or to its catch
afterGet(p, h, dataSheets) ==
    LET g == [h EXCEPT !.replies = Append(@, Return(dataSheets))]
        source == resolveSourceSheetId(dataSheets, h.parsedRange.sheetName)
    IN  IF source.t = "throw"
        THEN catchError(g, source.message, "resolve")
        ELSE destinationOf(p, [g EXCEPT !.sourceSheetId = Num(source.v)])

\* GetResolves with parsedRange kept in one variable of the module, which
\* holds what the latest invocation has parsed
GetResolvesSharedRange(i) ==
    /\ handler[i].pc = "awaitGet"
    /\ LET parsed == {j \in Invocations : handler[j].parsedRange # Undefined}
           latest == CHOOSE j \in parsed : \A k \in parsed : k <= j
       IN  handler' = [handler EXCEPT
                ![i] = afterGet(params[i],
                                [@ EXCEPT !.parsedRange = handler[latest].parsedRange],
                                sheets)]
    /\ UNCHANGED <<arg, ret, params, sheets, written>>

\* sheets.spreadsheets.get resolves with the sheets of the spreadsheet
GetResolves(i) ==
    /\ handler[i].pc = "awaitGet"
    /\ handler' = [handler EXCEPT ![i] = afterGet(params[i], @, sheets)]
    /\ UNCHANGED <<arg, ret, params, sheets, written>>

\* the addSheet request rejects: no sheet is made
AddSheetRejects(i) ==
    /\ handler[i].pc = "awaitAddSheet"
    /\ handler' = [handler EXCEPT
            ![i] = catchError([@ EXCEPT !.replies = Append(@, Throw(RequestFailed))],
                              RequestFailed, "create")]
    /\ UNCHANGED <<arg, ret, params, sheets, written>>

\* ids the service gives to new sheets
NewSheetIds == {0, 5, 6}

SheetIdsOf(list) == {list[k].sheetId : k \in 1..Len(list)}

TitlesOf(list) == {list[k].title : k \in 1..Len(list)}

\* the titles the service may give a new sheet asked for as title
TitleChoices(list, title) ==
    {t \in {title, title \o <<"2">>, title \o <<"2", "2">>} : t \notin TitlesOf(list)}

\* the handler from the addSheet reply to its next await, or to its catch
afterAddSheet(p, h, properties) ==
    LET g == [h EXCEPT !.replies = Append(@, Return(properties)),
                       !.destinationSheetName =
                            OrElse(properties.title, Str(h.destinationSheetName)).v]
    IN  IF properties.sheetId = Undefined \/ properties.sheetId = Null
        THEN catchError(g, FailedToCreate, "create")
        ELSE buildAndUpdate(p, [g EXCEPT !.destinationSheetId = properties.sheetId])

\* the addSheet request resolves: the service has made a sheet with an id
\* and a title of its choice; replyId and replyTitle say whether the reply
\* carries them
AddSheetResolves(i) ==
    /\ handler[i].pc = "awaitAddSheet"
    /\ \E sheetId \in NewSheetIds \ SheetIdsOf(sheets),
          title \in TitleChoices(sheets, handler[i].calls[Len(handler[i].calls)].title),
          replyId \in BOOLEAN, replyTitle \in BOOLEAN :
            /\ sheets' = Append(sheets, [sheetId |-> sheetId, title |-> title])
            /\ handler' = [handler EXCEPT
                    ![i] = afterAddSheet(params[i], @,
                              [sheetId |-> IF replyId THEN Num(sheetId) ELSE Undefined,
                               title |-> IF replyTitle THEN Str(title) ELSE Undefined])]
    /\ UNCHANGED <<arg, ret, params, written>>

\* UpdateRejects with the rejected request sent once more
UpdateRejectsRetry(i) ==
    /\ handler[i].pc = "awaitUpdate"
    /\ handler' = [handler EXCEPT
            ![i] = IF Len(@.calls) < 4
                   THEN [@ EXCEPT !.replies = Append(@, Throw(RequestFailed)),
                                  !.calls = Append(@, @[Len(@)])]
                   ELSE catchError([@ EXCEPT !.replies = Append(@, Throw(RequestFailed))],
                                   RequestFailed, "update")]
    /\ UNCHANGED <<arg, ret, params, sheets, written>>

\* UpdateRejects with a catch that deletes the sheet the handler has made
UpdateRejectsRollback(i) ==
    /\ handler[i].pc = "awaitUpdate"
    /\ handler' = [handler EXCEPT
            ![i] = catchError(
                     [@ EXCEPT !.replies = Append(@, Throw(RequestFailed)),
                               !.calls = Append(@, [op |-> "deleteSheet",
                                                    spreadsheetId |-> params[i].spreadsheet_id,
                                                    sheetId |-> handler[i].destinationSheetId.v])],
                     RequestFailed, "update")]
    /\ sheets' = SelectSeq(sheets,
                    LAMBDA sheet : \/ params[i].destination_sheet_id # Undefined
                                   \/ sheet.sheetId # handler[i].destinationSheetId.v)
    /\ UNCHANGED <<arg, ret, params, written>>

\* the updateCells request rejects
UpdateRejects(i) ==
    /\ handler[i].pc = "awaitUpdate"
    /\ handler' = [handler EXCEPT
            ![i] = catchError([@ EXCEPT !.replies = Append(@, Throw(RequestFailed))],
                              RequestFailed, "update")]
    /\ UNCHANGED <<arg, ret, params, sheets, written>>

\* output and the result of the handler after the pivot table is written
afterUpdate(p, h) ==
    LET output ==
            [spreadsheetId |-> p.spreadsheet_id,
             pivotTableSheetId |-> h.destinationSheetId.v,
             pivotTableSheetName |-> h.destinationSheetName,
             sourceRange |-> p.source_range,
             rowGroups |-> Len(h.pivotRows),
             columnGroups |-> Len(h.pivotColumns),
             valueAggregations |-> Len(h.pivotValues),
             filters |-> IF p.filters = Undefined THEN 0
                         ELSE OrElse(Num(Len(p.filters.v)), Num(0)).v]
    IN  [h EXCEPT !.replies = Append(@, Return(Undefined)),
                  !.result = [content |-> <<[type |-> "text", text |-> output]>>,
                              structuredContent |-> output],
                  !.pc = "done"]

\* the updateCells request resolves: the destination sheet exists and the
\* service has stored the pivot table in it
UpdateResolves(i) ==
    /\ handler[i].pc = "awaitUpdate"
    /\ handler[i].destinationSheetId.v \in SheetIdsOf(sheets)
    /\ written' = written \cup {<<i, handler[i].destinationSheetId.v>>}
    /\ handler' = [handler EXCEPT ![i] = afterUpdate(params[i], @)]
    /\ UNCHANGED <<arg, ret, params, sheets>>

Next ==
    \E i \in Invocations :
        \/ ValidateRejects(i)
        \/ ValidateAccepts(i)
        \/ ParseThrows(i)
        \/ ParseReturns(i)
        \/ GetRejects(i)
        \/ GetResolves(i)
        \/ AddSheetRejects(i)
        \/ AddSheetResolves(i)
        \/ UpdateRejects(i)
        \/ UpdateResolves(i)

-----------------------------------------------------------------------------
(* The invocations and the spreadsheets the tool is run on.                *)

Sales == <<"S", "a", "l", "e", "s">>
Data == <<"D", "a", "t", "a">>
PivotTitle == <<"P">>
SalesA1E100 == Sales \o <<"!", "A", "1", ":", "E", "1", "0", "0">>

SourceRanges ==
    {SalesA1E100,
     Data \o <<"!", "A", ":", "E">>,
     <<"A", ":", "E">>,
     <<"b", "2", ":", "C", "7">>,
     <<"1", "A", ":", "E">>,
     <<"X", "!", "B", "2">>}

\* the spreadsheet before the tool runs; the last one reports no sheet
InitialSheets ==
    {<<[sheetId |-> 0, title |-> Sales], [sheetId |-> 3, title |-> Data]>>,
     <<[sheetId |-> 3, title |-> Sales], [sheetId |-> 0, title |-> Data]>>,
     <<[sheetId |-> 4, title |-> Data], [sheetId |-> 3, title |-> Sales]>>,
     <<>>}

Group(column) ==
    [source_column |-> column,
     label |-> Undefined,
     show_totals |-> TRUE,
     sort_order |-> Undefined,
     sort_by_value |-> Undefined,
     group_rule |-> Undefined,
     group_limit |-> Undefined]

Value(column, formula, function) ==
    [source_column |-> column,
     formula |-> formula,
     summarize_function |-> function,
     name |-> Undefined,
     calculated_display_type |-> Undefined]

MonthRule ==
    [t |-> "object", keys |-> {"date_time"},
     date_time |-> [type |-> "MONTH"], histogram |-> Undefined, manual |-> Undefined]

\* rows, columns, values and filters of a request
Groupings ==
    {[rows |-> Arr(<<Group(Str(<<"A">>))>>),
      columns |-> Undefined,
      values |-> Arr(<<Value(Str(<<"E">>), Undefined, "SUM")>>),
      filters |-> Undefined],
     [rows |-> Undefined,
      columns |-> Arr(<<[Group(Num(1)) EXCEPT !.sort_order = Lit("DESCENDING"),
                                              !.label = Str(<<"L">>)]>>),
      values |-> Arr(<<Value(Undefined, Str(<<"=", "A">>), "CUSTOM")>>),
      filters |-> Arr(<<[source_column |-> Str(<<"B">>),
                         visible_values |-> Arr(<<Str(<<"x">>)>>),
                         condition |-> Undefined]>>)],
     [rows |-> Arr(<<[Group(Str(<<"A", "A">>)) EXCEPT !.group_rule = MonthRule],
                     [Group(Num(2)) EXCEPT
                        !.sort_by_value = [t |-> "object", value_index |-> 0]]>>),
      columns |-> Arr(<<[Group(Str(<<"z">>)) EXCEPT !.group_limit = Num(3)]>>),
      values |-> Arr(<<Value(Num(0), Undefined, "COUNT"),
                       Value(Str(<<"b">>), Undefined, "MAX")>>),
      filters |-> Arr(<<[source_column |-> Num(0),
                         visible_values |-> Undefined,
                         condition |-> [t |-> "object", type |-> "NUMBER_BETWEEN",
                                        values |-> Arr(<<Num(10), Str(<<"5">>)>>)]]>>)],
     [rows |-> Arr(<<>>),
      columns |-> Undefined,
      values |-> Arr(<<Value(Str(<<"E">>), Undefined, "SUM")>>),
      filters |-> Undefined],
     [rows |-> Undefined,
      columns |-> Undefined,
      values |-> Arr(<<Value(Str(<<"E">>), Undefined, "SUM")>>),
      filters |-> Undefined],
     [rows |-> Arr(<<>>),
      columns |-> Arr(<<>>),
      values |-> Arr(<<Value(Num(4), Undefined, "SUM")>>),
      filters |-> Undefined],
     [rows |-> Arr(<<Group(Str(<<"A">>))>>),
      columns |-> Undefined,
      values |-> Arr(<<Value(Str(<<"E">>), Str(<<"=", "A">>), "SUM")>>),
      filters |-> Undefined]}

Requests ==
    {[spreadsheet_id |-> <<"i", "d">>,
      source_range |-> range,
      destination_sheet_id |-> destination,
      destination_sheet_name |-> name,
      rows |-> g.rows,
      columns |-> g.columns,
      values |-> g.values,
      filters |-> g.filters,
      value_layout |-> "HORIZONTAL"] :
        range \in SourceRanges,
        destination \in {Undefined, Num(0), Num(3), Num(7)},
        name \in {PivotTitle, Data},
        g \in Groupings}

NoRequest == Undefined

ToolIdle ==
    /\ params = [i \in Invocations |-> NoRequest]
    /\ handler = [i \in Invocations |-> NoLocals]
    /\ sheets = <<>>
    /\ written = {}

\* one invocation of the tool, on each of the spreadsheets
Init ==
    /\ arg = <<>>
    /\ ret = Pending
    /\ \E request \in Requests :
          params = [i \in Invocations |-> IF i = 1 THEN request ELSE NoRequest]
    /\ handler = [i \in Invocations |->
                    IF i = 1 THEN [NoLocals EXCEPT !.pc = "called"] ELSE NoLocals]
    /\ sheets \in InitialSheets
    /\ written = {}

Spec == Init /\ [][Next]_vars

\* the requests of two invocations that run at the same time: a columns
\* pivot of Sales into a new sheet, a rows pivot of Data into a new sheet or
\* into sheet 3, a range that does not parse, and a request without groups
ConcurrentRequests ==
    {r \in Requests :
        /\ r.destination_sheet_name = PivotTitle
        /\ \/ /\ r.source_range = SalesA1E100
              /\ r.destination_sheet_id = Undefined
              /\ r.rows = Undefined /\ r.filters # Undefined
           \/ /\ r.source_range = Data \o <<"!", "A", ":", "E">>
              /\ r.destination_sheet_id \in {Undefined, Num(3)}
              /\ r.rows # Undefined /\ r.filters # Undefined
           \/ /\ r.source_range = <<"1", "A", ":", "E">>
              /\ r.destination_sheet_id = Undefined
              /\ r.rows = Undefined /\ r.filters # Undefined
           \/ /\ r.source_range = SalesA1E100
              /\ r.destination_sheet_id = Num(3)
              /\ r.rows = Arr(<<>>) /\ r.columns = Undefined}

ConcurrentSheets ==
    {<<[sheetId |-> 4, title |-> Data], [sheetId |-> 3, title |-> Sales]>>}

\* two invocations of the tool are under way on one spreadsheet
InitConcurrent ==
    /\ arg = <<>>
    /\ ret = Pending
    /\ params \in [Invocations -> ConcurrentRequests]
    /\ handler = [i \in Invocations |-> [NoLocals EXCEPT !.pc = "called"]]
    /\ sheets \in ConcurrentSheets
    /\ written = {}

SpecConcurrent == InitConcurrent /\ [][Next]_vars

-----------------------------------------------------------------------------
(* Calls of the pure helpers: the argument is drawn from a bounded set of  *)
(* the arguments the function is written for, and one action applies it.   *)

\* letters the column arguments are made of
ColumnChars == {"A", "B", "Z", "a", "z"}

ColumnLetterArgs == StringsOver(ColumnChars, 1, MaxLetters)

InitColumn ==
    /\ ToolIdle
    /\ arg \in ColumnLetterArgs
    /\ ret = Pending

CallColumnLetterToIndex ==
    /\ ret = Pending
    /\ ret' = Return(columnLetterToIndex(arg))
    /\ UNCHANGED <<arg, toolVars>>

NextColumn == CallColumnLetterToIndex

SpecColumn == InitColumn /\ [][NextColumn]_vars

\* characters a caller may put into a source_column
ColumnRefChars == ColumnChars \cup {"1", "$"}

\* the source_column values a caller may send
ColumnRefArgs ==
    {Str(s) : s \in StringsOver(ColumnRefChars, 0, MaxLetters)}
        \cup {Num(-1), Num(0), Num(2)}

InitColumnRef ==
    /\ ToolIdle
    /\ arg \in ColumnRefArgs
    /\ ret = Pending

CallResolveColumnRef ==
    /\ ret = Pending
    /\ ret' = resolveColumnRef(arg)
    /\ UNCHANGED <<arg, toolVars>>

NextColumnRef == CallResolveColumnRef

SpecColumnRef == InitColumnRef /\ [][NextColumnRef]_vars

\* characters the free-form range strings are made of
RangeChars == {"A", "e", "1", "0", "!", ":", "'"}

\* sheet-name prefixes of the composed range strings ("" is no prefix)
SheetPrefixes ==
    {<<>>,
     <<"S", "!">>,
     <<"S", "h", "e", "e", "t", "1", "!">>,
     <<"a", ":", "b", "!">>,
     <<"'", "M", "y", " ", "S", "h", "e", "e", "t", "'", "!">>,
     <<"'", "O", "'", "B", "'", "!">>}

ColumnNames ==
    {<<"A">>, <<"E">>, <<"Z">>, <<"b">>, <<"A", "A">>, <<"A", "Z">>}

RowNumbers ==
    {<<>>, <<"0">>, <<"1">>, <<"2">>, <<"1", "0">>, <<"1", "0", "0">>, <<"0", "7">>}

CellRefs == {c \o r : c \in ColumnNames, r \in RowNumbers}

\* prefix, reference and optional second reference put together
ComposedRanges ==
    {p \o a : p \in SheetPrefixes, a \in CellRefs}
        \cup {p \o a \o <<":">> \o b : p \in SheetPrefixes, a \in CellRefs, b \in CellRefs}

\* the range strings the documentation names
ExampleRanges ==
    {<<"1", "A", ":", "E">>,
     <<"E", "1", ":", "A", "1", "0">>,
     <<"A", "0", ":", "B", "5">>,
     <<"A", "1", ":", "B", "2", ":", "C", "3">>,
     <<"S", "!", "A", "1", "!", "B", "2">>,
     <<"'", "M", "y", " ", "S", "h", "e", "e", "t", "'", "!", "B", "2", ":", "B", "2">>}

RangeArgs ==
    StringsOver(RangeChars, 1, MaxRangeLen) \cup ComposedRanges \cup ExampleRanges

InitParse ==
    /\ ToolIdle
    /\ arg \in RangeArgs
    /\ ret = Pending

CallParseA1Range ==
    /\ ret = Pending
    /\ ret' = parseA1Range(arg)
    /\ UNCHANGED <<arg, toolVars>>

NextParse == CallParseA1Range

SpecParse == InitParse /\ [][NextParse]_vars

\* the pivot values a caller may send
PivotValueArgs ==
    [source_column : {Undefined, Num(0), Num(2), Num(-1),
                      Str(<<"A">>), Str(<<"e">>), Str(<<"A", "1">>)},
     formula : {Undefined, Str(<<>>), Str(<<"=", "A">>)},
     summarize_function : {"SUM", "CUSTOM"},
     name : {Undefined, Str(<<>>), Str(<<"N">>)},
     calculated_display_type : {Undefined, Lit("PERCENT_OF_ROW_TOTAL")}]

InitValue ==
    /\ ToolIdle
    /\ arg \in PivotValueArgs
    /\ ret = Pending

CallCompilePivotValue ==
    /\ ret = Pending
    /\ ret' = compilePivotValue(arg)
    /\ UNCHANGED <<arg, toolVars>>

NextValue == CallCompilePivotValue

SpecValue == InitValue /\ [][NextValue]_vars

HistogramRule ==
    [t |-> "object", keys |-> {"histogram"},
     date_time |-> Undefined,
     histogram |-> [interval |-> 10, start |-> 0, end |-> 100],
     manual |-> Undefined]

ManualRule ==
    [t |-> "object", keys |-> {"manual"},
     date_time |-> Undefined,
     histogram |-> Undefined,
     manual |-> [groups |-> <<[group_name |-> <<"G">>,
                               items |-> <<Str(<<"x">>), Num(0)>>]>>]]

\* the pivot groups the input schema lets through
PivotGroupArgs ==
    [source_column : {Num(0), Str(<<"B">>)},
     label : {Undefined, Str(<<>>), Str(<<"L">>)},
     show_totals : BOOLEAN,
     sort_order : {Undefined, Lit("ASCENDING"), Lit("DESCENDING")},
     sort_by_value : {Undefined} \cup
        {[t |-> "object", value_index |-> k] : k \in 0..MaxValueIndex},
     group_rule : {Undefined, MonthRule, HistogramRule, ManualRule},
     group_limit : {Undefined, Num(3)}]

InitGroup ==
    /\ ToolIdle
    /\ arg \in PivotGroupArgs
    /\ ret = Pending

CallBuildPivotGroup ==
    /\ ret = Pending
    /\ ret' = buildPivotGroup(arg)
    /\ UNCHANGED <<arg, toolVars>>

NextGroup == CallBuildPivotGroup

SpecGroup == InitGroup /\ [][NextGroup]_vars

\* the pivot filters the input schema lets through
PivotFilterArgs ==
    [source_column : {Num(0), Num(3), Str(<<"B">>), Str(<<"a", "a">>)},
     visible_values : {Undefined, Arr(<<>>), Arr(<<Str(<<"x">>)>>)},
     condition : {Undefined,
                  [t |-> "object", type |-> "NOT_BLANK", values |-> Undefined],
                  [t |-> "object", type |-> "NUMBER_BETWEEN",
                   values |-> Arr(<<Num(10), Str(<<"5">>)>>)]}]

PivotFilterLists == UNION {[1..n -> PivotFilterArgs] : n \in 0..MaxFilters}

InitFilters ==
    /\ ToolIdle
    /\ arg \in PivotFilterLists
    /\ ret = Pending

CallBuildPivotFilters ==
    /\ ret = Pending
    /\ ret' = Return(buildPivotFilters(arg))
    /\ UNCHANGED <<arg, toolVars>>

NextFilters == CallBuildPivotFilters

SpecFilters == InitFilters /\ [][NextFilters]_vars

\* the items and the groups of the manual rules
ManualItemLists ==
    UNION {[1..n -> {Str(<<"x">>), Num(0), Num(7)}] : n \in 0..MaxItems}

ManualGroups == [group_name : {<<"G">>}, items : ManualItemLists]

\* a rule with none of the three keys: what the last line of buildGroupRule
\* is written for
NoTagRule ==
    [t |-> "object", keys |-> {},
     date_time |-> Undefined, histogram |-> Undefined, manual |-> Undefined]

\* the group rules handed to buildGroupRule
GroupRuleArgs ==
    {[MonthRule EXCEPT !.date_time = [type |-> type]] : type \in DateTimeRuleTypes}
        \cup {HistogramRule,
              [HistogramRule EXCEPT !.histogram =
                    [interval |-> 1, start |-> Undefined, end |-> Undefined]]}
        \cup {[ManualRule EXCEPT !.manual = [groups |-> groups]] :
                groups \in UNION {[1..n -> ManualGroups] : n \in 1..MaxGroups}}
        \cup {NoTagRule}

InitRule ==
    /\ ToolIdle
    /\ arg \in GroupRuleArgs
    /\ ret = Pending

CallBuildGroupRule ==
    /\ ret = Pending
    /\ ret' = buildGroupRule(arg)
    /\ UNCHANGED <<arg, toolVars>>

NextRule == CallBuildGroupRule

SpecRule == InitRule /\ [][NextRule]_vars

-----------------------------------------------------------------------------
(* Properties of columnLetterToIndex.                                      *)

\* position of a letter in A..Z (A = 1), whatever its case
LetterPosition(c) ==
    IF IsIn(c, UpperLetters) THEN IndexIn(c, UpperLetters)
    ELSE IndexIn(c, LowerLetters)

\* value of the first n letters of L read as a base-26 numeral without zero
RECURSIVE Bijective26(_, _)
Bijective26(L, n) ==
    IF n = 0 THEN 0 ELSE 26 * Bijective26(L, n - 1) + LetterPosition(L[n])

\* C1: for every non-empty letter string L, columnLetterToIndex(L) is the
\* base-26 (A = 1, case-insensitive) value of L minus 1; it is 0 for "A",
\* 25 for "Z", 26 for "AA" and 51 for "AZ".
C1_ColumnLetterToIndex ==
    ret # Pending =>
        /\ ret = Return(Bijective26(arg, Len(arg)) - 1)
        /\ arg = <<"A">> => ret.v = 0
        /\ arg = <<"Z">> => ret.v = 25
        /\ arg = <<"A", "A">> => ret.v = 26
        /\ arg = <<"A", "Z">> => ret.v = 51

C1_Witness == arg = <<"A", "Z">> /\ ret = Return(51)

\* two letter strings that differ in case at most
SameUpToCase(L1, L2) ==
    /\ Len(L1) = Len(L2)
    /\ \A k \in 1..Len(L1) : LetterPosition(L1[k]) = LetterPosition(L2[k])

\* the upper-case column letters of a 0-based index
RECURSIVE ToLetters(_)
ToLetters(n) ==
    IF n < 26 THEN <<UpperLetters[n + 1]>>
    ELSE ToLetters((n \div 26) - 1) \o <<UpperLetters[(n % 26) + 1]>>

\* C13: columnLetterToIndex is case-insensitive and a bijection up to case:
\* two letter strings have the same index exactly when they are equal up to
\* case, and the index of the letters of an index is that index.
C13_BijectionUpToCase ==
    ret # Pending =>
        /\ \A L2 \in ColumnLetterArgs :
              columnLetterToIndex(L2) = ret.v <=> SameUpToCase(arg, L2)
        /\ SameUpToCase(arg, ToLetters(ret.v))
        /\ columnLetterToIndex(ToLetters(ret.v)) = ret.v

C13_Witness ==
    /\ arg = <<"a", "Z">>
    /\ ret = Return(51)
    /\ columnLetterToIndex(<<"A", "z">>) = 51
    /\ ToLetters(51) = <<"A", "Z">>

C14_WitnessEmpty ==
    /\ arg = Str(<<>>)
    /\ ret = Throw(InvalidInput)

-----------------------------------------------------------------------------
(* Properties of parseA1Range.                                             *)

StartsWith(s, p) == Len(s) >= Len(p) /\ SubSeq(s, 1, Len(p)) = p

DropFirst(s, n) == SubSeq(s, n + 1, Len(s))

\* value of the first n digits of ds read as a decimal numeral
RECURSIVE DecimalValue(_, _)
DecimalValue(ds, n) ==
    IF n = 0 THEN 0
    ELSE 10 * DecimalValue(ds, n - 1) + (IndexIn(ds[n], DigitChars) - 1)

RowNumber(ds) == DecimalValue(ds, Len(ds))

\* sheet names written without quotes
PlainSheetNames ==
    {<<"S">>, <<"S", "h", "e", "e", "t", "1">>, <<"a", ":", "b">>}

PositiveRows == {r \in RowNumbers : r # <<>> /\ RowNumber(r) > 0}

Sheet1A1E100 ==
    <<"S", "h", "e", "e", "t", "1", "!", "A", "1", ":", "E", "1", "0", "0">>

\* C2: for every range S!c1r1:c2r2 (r1, r2 positive row numbers) parseA1Range
\* returns sheetName S, startCol toIndex(c1), startRow r1 - 1, endCol
\* toIndex(c2) + 1 and endRow r2; "Sheet1!A1:E100" gives
\* {"Sheet1", 0, 0, 5, 100}.
C2_ParseSheetRange ==
    ret # Pending =>
        /\ \A S \in PlainSheetNames :
             StartsWith(arg, S \o <<"!">>) =>
               \A c1 \in ColumnNames, r1 \in PositiveRows :
                 StartsWith(DropFirst(arg, Len(S) + 1), c1 \o r1 \o <<":">>) =>
                   \A c2 \in ColumnNames, r2 \in PositiveRows :
                     arg = S \o <<"!">> \o c1 \o r1 \o <<":">> \o c2 \o r2 =>
                       ret = Return([sheetName |-> S,
                                     startCol |-> columnLetterToIndex(c1),
                                     startRow |-> RowNumber(r1) - 1,
                                     endCol |-> columnLetterToIndex(c2) + 1,
                                     endRow |-> RowNumber(r2)])
        /\ arg = Sheet1A1E100 =>
             ret = Return([sheetName |-> <<"S", "h", "e", "e", "t", "1">>,
                           startCol |-> 0, startRow |-> 0,
                           endCol |-> 5, endRow |-> 100])

C2_Witness ==
    /\ arg = Sheet1A1E100
    /\ ret # Pending
    /\ ret.t = "return"
    /\ ret.v.endCol = 5
    /\ ret.v.endRow = 100

AllLetters(s) == Len(s) >= 1 /\ \A i \in 1..Len(s) : IsLetterChar(s[i])

\* C3: for every pure-column range c1:c2 (no sheet prefix, no row digits)
\* parseA1Range returns sheetName "", startRow 0, endRow 1000, startCol
\* toIndex(c1) and endCol toIndex(c2) + 1; "A:E" gives {"", 0, 0, 5, 1000}.
C3_ParseColumnRange ==
    ret # Pending =>
        /\ \A k \in 1..Len(arg) :
             ( /\ arg[k] = ":"
               /\ AllLetters(SubSeq(arg, 1, k - 1))
               /\ AllLetters(DropFirst(arg, k)) ) =>
                 ret = Return([sheetName |-> <<>>,
                               startCol |-> columnLetterToIndex(SubSeq(arg, 1, k - 1)),
                               startRow |-> 0,
                               endCol |-> columnLetterToIndex(DropFirst(arg, k)) + 1,
                               endRow |-> 1000])
        /\ arg = <<"A", ":", "E">> =>
             ret = Return([sheetName |-> <<>>, startCol |-> 0, startRow |-> 0,
                           endCol |-> 5, endRow |-> 1000])

C3_Witness ==
    /\ arg = <<"A", ":", "E">>
    /\ ret # Pending
    /\ ret.t = "return"
    /\ ret.v.endRow = 1000
    /\ ret.v.endCol = 5

\* index of the first c in s, 0 when there is none
FirstIndex(s, c) ==
    IF \E i \in 1..Len(s) : s[i] = c
    THEN CHOOSE i \in 1..Len(s) : s[i] = c /\ \A j \in 1..(i - 1) : s[j] # c
    ELSE 0

\* the text before the first c (all of s when there is none)
Before(s, c) == IF FirstIndex(s, c) = 0 THEN s ELSE SubSeq(s, 1, FirstIndex(s, c) - 1)

\* the text after the first c
After(s, c) == DropFirst(s, FirstIndex(s, c))

\* the cell-range portion: the piece after the sheet name
CellRangeOf(range) ==
    IF FirstIndex(range, "!") = 0 THEN range ELSE Before(After(range, "!"), "!")

\* the start reference: the piece before the first ":"
StartRefOf(range) == Before(CellRangeOf(range), ":")

\* the end reference: the piece after the first ":", and the start reference
\* when that piece is missing or empty
EndRefOf(range) ==
    LET cells == CellRangeOf(range)
        second == Before(After(cells, ":"), ":")
    IN  IF FirstIndex(cells, ":") = 0 \/ second = <<>>
        THEN StartRefOf(range)
        ELSE second

\* letters, then optional digits
IsReference(s) ==
    \E k \in 1..Len(s) :
        /\ \A i \in 1..k : IsLetterChar(s[i])
        /\ \A i \in (k + 1)..Len(s) : IsDigitChar(s[i])

LettersOf(ref) == SelectSeq(ref, IsLetterChar)

DigitsOf(ref) == SelectSeq(ref, IsDigitChar)

\* C25: parseA1Range neither reorders nor rejects a range whose end is
\* before its start: the start column is that of the first reference and
\* the end column that of the second, as written; "E1:A10" gives startCol 4
\* and endCol 1 and no error.
C25_NotNormalized ==
    ret # Pending =>
        /\ ret.t = "return" =>
              /\ ret.v.startCol = Bijective26(LettersOf(StartRefOf(arg)),
                                             Len(LettersOf(StartRefOf(arg)))) - 1
              /\ ret.v.endCol = Bijective26(LettersOf(EndRefOf(arg)),
                                           Len(LettersOf(EndRefOf(arg))))
        /\ arg = <<"E", "1", ":", "A", "1", "0">> =>
              ret = Return([sheetName |-> <<>>, startCol |-> 4, startRow |-> 0,
                            endCol |-> 1, endRow |-> 10])

C25_Witness ==
    /\ arg = <<"E", "1", ":", "A", "1", "0">>
    /\ ret # Pending
    /\ ret.t = "return"
    /\ ret.v.startCol = 4
    /\ ret.v.endCol = 1

\* C26: for a cell-range portion with no ":" the end reference is the
\* start reference: a single cell c r gives startCol toIndex(c), endCol
\* toIndex(c) + 1, startRow r - 1 and endRow r, and a single column c gives
\* the rows 0 to 1000.
C26_SingleReference ==
    (/\ ret # Pending
     /\ FirstIndex(CellRangeOf(arg), ":") = 0
     /\ IsReference(CellRangeOf(arg))) =>
        LET c == LettersOf(CellRangeOf(arg))
            r == DigitsOf(CellRangeOf(arg))
        IN  /\ ret.t = "return"
            /\ ret.v.startCol = Bijective26(c, Len(c)) - 1
            /\ ret.v.endCol = Bijective26(c, Len(c))
            /\ r # <<>> => /\ ret.v.startRow = RowNumber(r) - 1
                           /\ ret.v.endRow = RowNumber(r)
            /\ r = <<>> => /\ ret.v.startRow = 0
                           /\ ret.v.endRow = 1000

C26_Witness ==
    /\ arg = <<"S", "!", "A", "A", "1", "0">>
    /\ ret = Return([sheetName |-> <<"S">>, startCol |-> 26, startRow |-> 9,
                     endCol |-> 27, endRow |-> 10])

C26_WitnessColumn ==
    /\ arg = <<"E">>
    /\ ret = Return([sheetName |-> <<>>, startCol |-> 4, startRow |-> 0,
                     endCol |-> 5, endRow |-> 1000])

\* how many times the character c is in s
Count(s, c) == Cardinality({k \in 1..Len(s) : s[k] = c})

\* all the text after the first "!" (all of the range when there is none)
AfterSheetName(range) ==
    IF FirstIndex(range, "!") = 0 THEN range ELSE After(range, "!")

\* C27: parseA1Range splits once on "!" and once on ":", so a range with a
\* second "!", or with a second ":" in its cell-range portion, has a
\* reference that is not letters and digits and is refused with "Invalid
\* range format"; "A1:B2:C3" and "S!A1!B2" are refused.
C27_SplitOnce ==
    ret # Pending =>
        /\ (Count(arg, "!") >= 2 \/ Count(AfterSheetName(arg), ":") >= 2) =>
              ret = Throw(InvalidRangeFormat)
        /\ arg = <<"A", "1", ":", "B", "2", ":", "C", "3">> =>
              ret = Throw(InvalidRangeFormat)
        /\ arg = <<"S", "!", "A", "1", "!", "B", "2">> =>
              ret = Throw(InvalidRangeFormat)

\* C29: for every range parseA1Range accepts, startRow and startCol are at
\* least 0, also when the row number 0 is written, as in "A0:B5".
C29_NonNegativeStart ==
    (ret # Pending /\ ret.t = "return") =>
        /\ ret.v.startRow >= 0
        /\ ret.v.startCol >= 0

\* the sheet-name part of a range: the text before the first "!"
SheetPartOf(range) == Before(range, "!")

\* a name wrapped in single quotes
Quoted(name) == Len(name) >= 2 /\ name[1] = "'" /\ name[Len(name)] = "'"

\* a name with no quote at either end
Unquoted(name) == Len(name) = 0 \/ (name[1] # "'" /\ name[Len(name)] # "'")

MySheetB2 ==
    <<"'", "M", "y", " ", "S", "h", "e", "e", "t", "'", "!", "B", "2", ":", "B", "2">>

\* C15: when the sheet-name part before "!" is wrapped in single quotes,
\* parseA1Range returns it without its first and its last quote and with
\* the text between them unchanged ("'My Sheet'!B2:B2" gives "My Sheet");
\* a name with no quote around it is returned unchanged.
C15_QuotedSheetName ==
    (ret # Pending /\ ret.t = "return" /\ FirstIndex(arg, "!") # 0) =>
        LET name == SheetPartOf(arg)
        IN  /\ Quoted(name) => ret.v.sheetName = SubSeq(name, 2, Len(name) - 1)
            /\ Unquoted(name) => ret.v.sheetName = name
            /\ arg = MySheetB2 =>
                  ret.v.sheetName = <<"M", "y", " ", "S", "h", "e", "e", "t">>

C15_Witness ==
    /\ arg = <<"'", "O", "'", "B", "'", "!", "A", "1">>
    /\ ret # Pending
    /\ ret.t = "return"
    /\ ret.v.sheetName = <<"O", "'", "B">>

C15_WitnessExample ==
    /\ arg = MySheetB2
    /\ ret # Pending
    /\ ret.t = "return"
    /\ ret.v.sheetName = <<"M", "y", " ", "S", "h", "e", "e", "t">>

-----------------------------------------------------------------------------
(* Properties of the pivot value compilation.                              *)

\* C5: a pivot value with both source_column and formula set, and one with
\* neither set, is refused with an error and no value object is produced.
C5_ValueExactlyOne ==
    ret # Pending =>
        LET hasColumn == arg.source_column.t # "undefined"
            hasFormula == arg.formula.t # "undefined"
        IN  (hasColumn <=> hasFormula) =>
                /\ ret.t = "throw"
                /\ ret.message \in {InvalidInput, EitherRequired, CannotSpecifyBoth}

C5_Witness ==
    /\ arg.source_column = Str(<<"A">>)
    /\ arg.formula = Str(<<"=", "A">>)
    /\ ret = Throw(CannotSpecifyBoth)

C5_WitnessNeither ==
    /\ arg.source_column = Undefined
    /\ arg.formula = Undefined
    /\ ret = Throw(EitherRequired)

\* C30: every value object built from a pivot value the schema accepts has
\* exactly one of sourceColumnOffset and formula set, for every accepted
\* source_column (0 included) and every accepted formula (the empty string
\* included).
C30_ExactlyOneSet ==
    (ret # Pending /\ ret.t = "return") =>
        (ret.v.sourceColumnOffset # Undefined) # (ret.v.formula # Undefined)

-----------------------------------------------------------------------------
(* Properties of the create-pivot-table invocation.                        *)

\* the result the handler returns when it has caught error
ErrorResult(error) ==
    [content |-> <<[type |-> "text", text |-> handleGoogleError(error)]>>,
     structuredContent |-> Undefined]

\* the metadata request of invocation i was answered with the sheet list
GotSheets(i) ==
    /\ Len(handler[i].replies) >= 1
    /\ handler[i].replies[1].t = "return"

SheetsGot(i) == handler[i].replies[1].v

\* the places of the sheets titled name in a sheet list
Titled(list, name) == {k \in 1..Len(list) : list[k].title = name}

\* invocation i has parsed a range that names a sheet
NamesSheet(i) ==
    /\ handler[i].parsedRange # Undefined
    /\ handler[i].parsedRange.sheetName # <<>>

\* invocation i has parsed a range that names no sheet
NamesNoSheet(i) ==
    /\ handler[i].parsedRange # Undefined
    /\ handler[i].parsedRange.sheetName = <<>>

\* invocation i ended in the catch block with this error, thrown at step
Failed(i, error, step) ==
    /\ handler[i].pc = "done"
    /\ handler[i].thrownAt = step
    /\ handler[i].result = ErrorResult(error)

\* C6: for a non-empty sheet name the source sheet id is the sheetId of the
\* sheet with that title whenever there is one (sheetId 0 included), and the
\* invocation fails with "not found" exactly when no sheet has that title.
C6_SheetIdByName ==
    \A i \in Invocations :
        (NamesSheet(i) /\ GotSheets(i)) =>
            LET found == Titled(SheetsGot(i), handler[i].parsedRange.sheetName)
            IN  IF found # {}
                THEN /\ handler[i].thrownAt # "resolve"
                     /\ \E k \in found :
                            handler[i].sourceSheetId = Num(SheetsGot(i)[k].sheetId)
                ELSE Failed(i, SheetNotFound, "resolve")

C7_WitnessNoSheets ==
    \E i \in Invocations :
        /\ NamesNoSheet(i)
        /\ GotSheets(i)
        /\ SheetsGot(i) = <<>>
        /\ handler[i].sourceSheetId = Num(0)
        /\ handler[i].pc = "awaitUpdate"

\* the mutating requests invocation i has sent
Mutations(i) ==
    {k \in 1..Len(handler[i].calls) :
        handler[i].calls[k].op \in {"addSheet", "updateCells"}}

\* step 1 failed: the handler ran and the source range does not parse
ParseFailed(i) ==
    /\ handler[i].pc \notin {"idle", "called", "handler"}
    /\ handler[i].thrownAt # "schema"
    /\ parseA1Range(params[i].source_range).t = "throw"

\* step 2 failed: the metadata request was rejected, or the sheet list it
\* brought has no usable sheet of the name
ResolveFailed(i) ==
    /\ Len(handler[i].replies) >= 1
    /\ \/ handler[i].replies[1].t = "throw"
       \/ resolveSourceSheetId(SheetsGot(i), handler[i].parsedRange.sheetName).t = "throw"

\* C8: when parsing the source range or resolving the source sheet id fails,
\* the invocation has sent no mutating request (no sheet creation, no pivot
\* update), has stored nothing, and is over.
C8_NoMutationAfterEarlyFailure ==
    \A i \in Invocations :
        (ParseFailed(i) \/ ResolveFailed(i) \/ handler[i].thrownAt \in {"parse", "resolve"}) =>
            /\ Mutations(i) = {}
            /\ \A w \in written : w[1] # i
            /\ handler[i].pc = "done"
            /\ handler[i].thrownAt \in {"parse", "resolve"}

C8_Witness ==
    \E i \in Invocations :
        /\ ResolveFailed(i)
        /\ handler[i].replies[1].t = "return"
        /\ params[i].destination_sheet_id = Undefined
        /\ handler[i].pc = "done"
        /\ handler[i].calls = <<getCall(params[i])>>

C8_WitnessParse ==
    \E i \in Invocations :
        /\ ParseFailed(i)
        /\ params[i].destination_sheet_id = Undefined
        /\ handler[i].pc = "done"
        /\ handler[i].calls = <<>>

\* the requests of kind op that invocation i has sent
CallsOf(i, op) == {k \in 1..Len(handler[i].calls) : handler[i].calls[k].op = op}

\* invocation i returned the success result
Succeeded(i) ==
    /\ handler[i].pc = "done"
    /\ handler[i].thrownAt = "none"

\* C9: with destination_sheet_id supplied (0 included) no sheet is created
\* and the pivot goes to that id; without it exactly one sheet creation is
\* requested, under the requested name, and the id and title of the reply
\* are those of the pivot write and of the result.
C9_Destination ==
    \A i \in Invocations :
        params[i] # NoRequest =>
            IF params[i].destination_sheet_id # Undefined
            THEN /\ CallsOf(i, "addSheet") = {}
                 /\ \A k \in CallsOf(i, "updateCells") :
                        handler[i].calls[k].sheetId = params[i].destination_sheet_id.v
                 /\ handler[i].sourceSheetId # Undefined =>
                        Cardinality(CallsOf(i, "updateCells")) = 1
                 /\ Succeeded(i) =>
                        handler[i].result.structuredContent.pivotTableSheetId
                            = params[i].destination_sheet_id.v
            ELSE /\ Cardinality(CallsOf(i, "addSheet")) <= 1
                 /\ handler[i].sourceSheetId # Undefined =>
                        /\ Cardinality(CallsOf(i, "addSheet")) = 1
                        /\ handler[i].calls[2]
                             = addSheetCall(params[i], params[i].destination_sheet_name)
                 /\ \A k \in CallsOf(i, "updateCells") :
                        /\ handler[i].replies[2].t = "return"
                        /\ handler[i].calls[k].sheetId = handler[i].replies[2].v.sheetId.v
                 /\ Succeeded(i) =>
                        LET reply == handler[i].replies[2].v
                            output == handler[i].result.structuredContent
                        IN  /\ output.pivotTableSheetId = reply.sheetId.v
                            /\ reply.title # Undefined =>
                                    output.pivotTableSheetName = reply.title.v

C9_Witness ==
    \E i \in Invocations :
        /\ params[i] # NoRequest
        /\ params[i].destination_sheet_id = Undefined
        /\ Succeeded(i)
        /\ Cardinality(CallsOf(i, "addSheet")) = 1
        /\ handler[i].replies[2].v.title # Undefined
        /\ handler[i].replies[2].v.title # Str(params[i].destination_sheet_name)
        /\ handler[i].result.structuredContent.pivotTableSheetName
                = handler[i].replies[2].v.title.v
        /\ handler[i].result.structuredContent.pivotTableSheetId
                = handler[i].replies[2].v.sheetId.v

C9_WitnessSupplied ==
    \E i \in Invocations :
        /\ params[i] # NoRequest
        /\ params[i].destination_sheet_id = Num(0)
        /\ Succeeded(i)
        /\ CallsOf(i, "addSheet") = {}
        /\ handler[i].calls[2].sheetId = 0
        /\ handler[i].result.structuredContent.pivotTableSheetId = 0

\* the id a lookup of the sheet list gives for name: that of the sheet
\* with the title, and of the first sheet (0 when none) for no name
LookupId(list, name) ==
    IF name # <<>> THEN list[CHOOSE k \in Titled(list, name) : TRUE].sheetId
    ELSE IF Len(list) >= 1 THEN list[1].sheetId
    ELSE 0

\* the offsets of the groups of a compiled list agree with the columns asked
OffsetsResolved(compiled, asked) ==
    LET wanted == IF asked = Undefined THEN <<>> ELSE asked.v
        got == IF compiled = Undefined THEN <<>> ELSE compiled.v
    IN  /\ Len(got) = Len(wanted)
        /\ \A k \in 1..Len(wanted) :
              got[k].sourceColumnOffset = resolveColumnIndex(wanted[k].source_column)

\* C10: the source region of the pivot table sent is the looked-up sheet id
\* with the bounds parseA1Range returns for source_range, and each compiled
\* row and column has the resolved column index as sourceColumnOffset; for
\* "Sales!A1:E100", rows [{source_column: "A"}] and Sales having id 3 the
\* region is {3, 0, 0, 100, 5} and rows[0].sourceColumnOffset is 0.
C10_EndToEnd ==
    \A i \in Invocations :
        \A k \in CallsOf(i, "updateCells") :
            LET pivotTable == handler[i].calls[k].pivotTable
                range == parseA1Range(params[i].source_range).v
            IN  /\ pivotTable.source =
                        [sheetId |-> LookupId(SheetsGot(i), range.sheetName),
                         startRowIndex |-> range.startRow,
                         startColumnIndex |-> range.startCol,
                         endRowIndex |-> range.endRow,
                         endColumnIndex |-> range.endCol]
                /\ OffsetsResolved(pivotTable.rows, params[i].rows)
                /\ OffsetsResolved(pivotTable.columns, params[i].columns)
                /\ ( /\ params[i].source_range = SalesA1E100
                     /\ params[i].rows = Arr(<<Group(Str(<<"A">>))>>) ) =>
                        /\ pivotTable.source.startRowIndex = 0
                        /\ pivotTable.source.startColumnIndex = 0
                        /\ pivotTable.source.endRowIndex = 100
                        /\ pivotTable.source.endColumnIndex = 5
                        /\ pivotTable.rows.v[1].sourceColumnOffset = 0

C10_Witness ==
    \E i \in Invocations :
        /\ params[i] # NoRequest
        /\ params[i].source_range = SalesA1E100
        /\ params[i].rows = Arr(<<Group(Str(<<"A">>))>>)
        /\ CallsOf(i, "updateCells") # {}
        /\ handler[i].pivotTable.source =
                [sheetId |-> 3, startRowIndex |-> 0, startColumnIndex |-> 0,
                 endRowIndex |-> 100, endColumnIndex |-> 5]
        /\ handler[i].pivotTable.rows.v[1].sourceColumnOffset = 0

-----------------------------------------------------------------------------
(* Properties of buildPivotGroup.                                          *)

\* C11: a group with sort_by_value compiles to a group whose valueBucket
\* holds valuesIndex = the given index (0 included), and whose sortOrder is
\* set exactly when sort_order was given, to the given order.
C11_SortByValue ==
    (ret # Pending /\ arg.sort_by_value # Undefined) =>
        /\ ret.t = "return"
        /\ ret.v.valueBucket # Undefined
        /\ ret.v.valueBucket.valuesIndex = Num(arg.sort_by_value.value_index)
        /\ ret.v.sortOrder # Undefined <=> arg.sort_order # Undefined
        /\ arg.sort_order # Undefined => ret.v.sortOrder = arg.sort_order

C11_Witness ==
    /\ ret # Pending
    /\ arg.sort_by_value = [t |-> "object", value_index |-> 0]
    /\ arg.sort_order = Undefined
    /\ ret.v.valueBucket = [t |-> "object", valuesIndex |-> Num(0)]
    /\ ret.v.sortOrder = Undefined

\* C12: a group with a sort_order and no sort_by_value compiles to a group
\* with an explicit empty valueBucket (no valuesIndex) and the given
\* sortOrder.
C12_SortOrderAlone ==
    (ret # Pending /\ arg.sort_order # Undefined /\ arg.sort_by_value = Undefined) =>
        /\ ret.t = "return"
        /\ ret.v.valueBucket = [t |-> "object", valuesIndex |-> Undefined]
        /\ ret.v.sortOrder = arg.sort_order

C12_Witness ==
    /\ ret # Pending
    /\ arg.sort_order = Lit("DESCENDING")
    /\ arg.sort_by_value = Undefined
    /\ ret.v.valueBucket = [t |-> "object", valuesIndex |-> Undefined]
    /\ ret.v.sortOrder = Lit("DESCENDING")

\* C24: the label of the compiled group is the label of the input whenever
\* one was supplied, for every string (the empty string included), and its
\* showTotals is the show_totals of the input.
C24_LabelVerbatim ==
    (ret # Pending /\ ret.t = "return") =>
        /\ arg.label # Undefined => ret.v.label = arg.label
        /\ ret.v.showTotals = arg.show_totals

-----------------------------------------------------------------------------
(* Properties of the requests of an invocation.                            *)

\* invocation i asked for a destination sheet and the service made it
CreatedSheet(i) ==
    /\ Len(handler[i].replies) >= 2
    /\ handler[i].calls[2].op = "addSheet"
    /\ handler[i].replies[2].t = "return"

\* C16: when the destination sheet was created and a later step fails (the
\* compilation of a group rule or the pivot update request), the invocation
\* ends with the error result, the created sheet is still in the
\* spreadsheet, and no request other than the metadata read, the sheet
\* creation and the pivot update was sent: nothing deletes the sheet.
C16_NoRollback ==
    \A i \in Invocations :
        (CreatedSheet(i) /\ handler[i].thrownAt \in {"compile", "update"}) =>
            /\ handler[i].pc = "done"
            /\ \E error \in {RequestFailed, InvalidGroupRule} :
                  handler[i].result = ErrorResult(error)
            /\ handler[i].replies[2].v.sheetId # Undefined
            /\ handler[i].replies[2].v.sheetId.v \in SheetIdsOf(sheets)
            /\ \A k \in 1..Len(handler[i].calls) :
                  handler[i].calls[k].op \in {"get", "addSheet", "updateCells"}
            /\ Cardinality(CallsOf(i, "addSheet")) = 1

C16_Witness ==
    \E i \in Invocations :
        /\ CreatedSheet(i)
        /\ handler[i].thrownAt = "update"
        /\ handler[i].pc = "done"
        /\ handler[i].result = ErrorResult(RequestFailed)
        /\ handler[i].replies[2].v.sheetId = Num(5)
        /\ 5 \in SheetIdsOf(sheets)
        /\ Len(handler[i].calls) = 3

\* the kinds of the requests invocation i has sent, in the order sent
OpsOf(i) == [k \in 1..Len(handler[i].calls) |-> handler[i].calls[k].op]

\* the requests of a whole invocation for request p
ExpectedOps(p) ==
    IF p.destination_sheet_id = Undefined
    THEN <<"get", "addSheet", "updateCells">>
    ELSE <<"get", "updateCells">>

IsPrefix(s, t) == Len(s) <= Len(t) /\ s = SubSeq(t, 1, Len(s))

\* C18: the requests of an invocation are, in this order, the metadata
\* read, the sheet creation (only when no destination id was supplied) and
\* one pivot update; each is sent at most once, each waits for the reply to
\* the one before, and after a failed request nothing more is sent.
C18_CallOrder ==
    \A i \in Invocations :
        params[i] # NoRequest =>
            /\ IsPrefix(OpsOf(i), ExpectedOps(params[i]))
            /\ Len(handler[i].replies) <= Len(handler[i].calls)
            /\ Len(handler[i].calls) <= Len(handler[i].replies) + 1
            /\ \A k \in 1..Len(handler[i].replies) :
                  handler[i].replies[k].t = "throw" =>
                      /\ k = Len(handler[i].calls)
                      /\ handler[i].pc = "done"
            /\ handler[i].thrownAt # "none" => handler[i].pc = "done"

C18_Witness ==
    \E i \in Invocations :
        /\ params[i] # NoRequest
        /\ Succeeded(i)
        /\ OpsOf(i) = <<"get", "addSheet", "updateCells">>

C18_WitnessSupplied ==
    \E i \in Invocations :
        /\ params[i] # NoRequest
        /\ params[i].destination_sheet_id # Undefined
        /\ handler[i].pc = "done"
        /\ OpsOf(i) = <<"get", "updateCells">>
        /\ handler[i].replies[2] = Throw(RequestFailed)

\* an optional list that is absent or empty
AbsentOrEmpty(list) == list = Undefined \/ Len(list.v) = 0

\* C19: every pivot table sent to the service has a non-empty values list
\* and rows or columns present and non-empty; a request whose rows and
\* columns are both absent or empty is refused before any request is sent.
C19_GroupingRequired ==
    \A i \in Invocations :
        params[i] # NoRequest =>
            /\ \A k \in CallsOf(i, "updateCells") :
                  LET pivotTable == handler[i].calls[k].pivotTable
                  IN  /\ Len(pivotTable.values) >= 1
                      /\ ~(AbsentOrEmpty(pivotTable.rows)
                            /\ AbsentOrEmpty(pivotTable.columns))
            /\ (/\ AbsentOrEmpty(params[i].rows)
                 /\ AbsentOrEmpty(params[i].columns)
                 /\ handler[i].pc # "called") =>
                    /\ handler[i].pc = "done"
                    /\ handler[i].thrownAt = "schema"
                    /\ handler[i].result = Rejection(GroupingRequired)
                    /\ handler[i].calls = <<>>

C19_Witness ==
    \E i \in Invocations :
        /\ params[i] # NoRequest
        /\ params[i].rows = Arr(<<>>)
        /\ params[i].columns = Arr(<<>>)
        /\ handler[i].pc = "done"
        /\ handler[i].result = Rejection(GroupingRequired)
        /\ handler[i].calls = <<>>

C19_WitnessSent ==
    \E i \in Invocations :
        /\ params[i] # NoRequest
        /\ params[i].rows = Undefined
        /\ Succeeded(i)
        /\ CallsOf(i, "updateCells") # {}
        /\ \A k \in CallsOf(i, "updateCells") :
              /\ handler[i].calls[k].pivotTable.rows = Undefined
              /\ Len(handler[i].calls[k].pivotTable.columns.v) = 1

-----------------------------------------------------------------------------
(* Properties of buildPivotFilters.                                        *)

\* the 0-based column a source_column stands for
ColumnOf(column) ==
    IF column.t = "number" THEN column.v
    ELSE Bijective26(column.v, Len(column.v)) - 1

\* C20: buildPivotFilters returns a list as long as its input, and the
\* columnOffsetIndex of its i-th element is the resolved source column of
\* the i-th filter of the input.
C20_FiltersInOrder ==
    ret # Pending =>
        /\ Len(ret.v) = Len(arg)
        /\ \A k \in 1..Len(arg) :
              ret.v[k].columnOffsetIndex = ColumnOf(arg[k].source_column)

C20_Witness ==
    /\ ret # Pending
    /\ Len(arg) = 2
    /\ arg[1].source_column = Str(<<"a", "a">>)
    /\ arg[1].visible_values = Undefined
    /\ arg[1].condition = Undefined
    /\ arg[2].source_column = Num(3)
    /\ ret.v[1].columnOffsetIndex = 26
    /\ ret.v[2].columnOffsetIndex = 3

-----------------------------------------------------------------------------
(* Properties of two invocations that run at the same time.                *)

\* the groups compiled from an optional list of a request (undefined when
\* the list is absent or empty)
CompiledGroups(list) ==
    LET compiled == returned(mapBuildPivotGroup(list))
    IN  IF Len(compiled) > 0 THEN Arr(compiled) ELSE Undefined

\* what invocation i holds is made of its own request and of the replies
\* to its own requests
OwnState(i) ==
    LET h == handler[i]
        p == params[i]
        range == parseA1Range(p.source_range)
    IN  /\ h.parsedRange # Undefined =>
              /\ range.t = "return"
              /\ h.parsedRange = range.v
        /\ h.sourceSheetId # Undefined =>
              /\ GotSheets(i)
              /\ h.sourceSheetId = Num(LookupId(SheetsGot(i), range.v.sheetName))
        /\ h.destinationSheetId # Undefined =>
              IF p.destination_sheet_id # Undefined
              THEN h.destinationSheetId = p.destination_sheet_id
              ELSE /\ CreatedSheet(i)
                   /\ h.destinationSheetId = h.replies[2].v.sheetId
        /\ h.pivotTable # Undefined =>
              /\ h.pivotTable.source.sheetId = h.sourceSheetId.v
              /\ h.pivotTable.rows = CompiledGroups(p.rows)
              /\ h.pivotTable.columns = CompiledGroups(p.columns)
              /\ h.pivotTable.values =
                    [k \in 1..Len(p.values.v) |-> buildPivotValue(p.values.v[k])]
              /\ h.pivotTable.filterSpecs =
                    IF p.filters = Undefined THEN Undefined
                    ELSE Arr(buildPivotFilters(p.filters.v))
        /\ \A k \in CallsOf(i, "updateCells") :
              /\ h.calls[k].sheetId = h.destinationSheetId.v
              /\ h.calls[k].pivotTable = h.pivotTable

\* C17: in every interleaving of two invocations at their awaits, the
\* parsed range, the source sheet id, the destination sheet id and the
\* compiled rows, columns, values and filters of each invocation come from
\* its own request and from the replies to its own requests.
C17_Isolation == \A i \in Invocations : OwnState(i)

\* both invocations have sent their pivot table, the second one while the
\* first was waiting, for different ranges and different destinations
C17_Witness ==
    /\ params[1].source_range # params[2].source_range
    /\ params[1].rows # params[2].rows
    /\ handler[1].pc = "awaitUpdate"
    /\ handler[2].pc = "done"
    /\ Succeeded(2)
    /\ handler[1].parsedRange # handler[2].parsedRange
    /\ handler[1].sourceSheetId # handler[2].sourceSheetId
    /\ handler[1].destinationSheetId # handler[2].destinationSheetId
    /\ handler[1].pivotTable # handler[2].pivotTable

\* the decimal text of the operands of the filter inputs
OperandText(v) ==
    IF v.t = "string" THEN v.v
    ELSE IF v = Num(10) THEN <<"1", "0">>
    ELSE toStringValue(v)

\* C21: a filter with visible_values compiles to the allowlist of exactly
\* those values and no condition, also when a condition is supplied; a
\* filter without visible_values and with a condition compiles to a
\* condition of the same type whose operands are the input operands in
\* order, each as its string.
C21_FilterCriteria ==
    ret # Pending =>
        \A k \in 1..Len(arg) :
            LET filter == arg[k]
                criteria == ret.v[k].filterCriteria
            IN  /\ filter.visible_values # Undefined =>
                      /\ criteria.visibleValues = filter.visible_values
                      /\ criteria.condition = Undefined
                /\ (filter.visible_values = Undefined /\ filter.condition # Undefined) =>
                      /\ criteria.visibleValues = Undefined
                      /\ criteria.condition # Undefined
                      /\ criteria.condition.type = filter.condition.type
                      /\ filter.condition.values = Undefined =>
                            criteria.condition.values = Undefined
                      /\ filter.condition.values # Undefined =>
                            /\ criteria.condition.values # Undefined
                            /\ Len(criteria.condition.values.v)
                                    = Len(filter.condition.values.v)
                            /\ \A n \in 1..Len(filter.condition.values.v) :
                                  criteria.condition.values.v[n].userEnteredValue
                                    = OperandText(filter.condition.values.v[n])

C21_Witness ==
    /\ ret # Pending
    /\ Len(arg) = 2
    /\ arg[1].visible_values = Arr(<<Str(<<"x">>)>>)
    /\ arg[1].condition # Undefined
    /\ ret.v[1].filterCriteria.visibleValues = Arr(<<Str(<<"x">>)>>)
    /\ ret.v[1].filterCriteria.condition = Undefined
    /\ arg[2].visible_values = Undefined
    /\ arg[2].condition # Undefined
    /\ arg[2].condition.values # Undefined
    /\ ret.v[2].filterCriteria.condition.values
            = Arr(<<[userEnteredValue |-> <<"1", "0">>],
                    [userEnteredValue |-> <<"5">>]>>)

-----------------------------------------------------------------------------
(* Properties of buildGroupRule.                                           *)

\* the member the service is sent for an item of a manual group
TypedMember(item) ==
    IF item.t = "number"
    THEN [stringValue |-> Undefined, numberValue |-> item.v]
    ELSE [stringValue |-> item.v, numberValue |-> Undefined]

\* C22: the compiled manual rule has the groups of the input in their
\* order, each with its name and with its members in their order; a member
\* that is a number is sent as a numberValue, any other as a stringValue.
C22_ManualRule ==
    (ret # Pending /\ "manual" \in arg.keys) =>
        /\ ret.t = "return"
        /\ ret.v.manualRule # Undefined
        /\ LET groups == arg.manual.groups
               compiled == ret.v.manualRule.groups
           IN  /\ Len(compiled) = Len(groups)
               /\ \A g \in 1..Len(groups) :
                     /\ compiled[g].groupName = [stringValue |-> groups[g].group_name]
                     /\ Len(compiled[g].items) = Len(groups[g].items)
                     /\ \A k \in 1..Len(groups[g].items) :
                           compiled[g].items[k] = TypedMember(groups[g].items[k])

C22_Witness ==
    /\ ret # Pending
    /\ "manual" \in arg.keys
    /\ Len(arg.manual.groups) = 2
    /\ arg.manual.groups[1].items = <<Num(7), Str(<<"x">>)>>
    /\ arg.manual.groups[2].items = <<Str(<<"x">>), Num(0)>>
    /\ ret.v.manualRule.groups[1].items =
            <<[stringValue |-> Undefined, numberValue |-> 7],
              [stringValue |-> <<"x">>, numberValue |-> Undefined]>>
    /\ ret.v.manualRule.groups[2].items =
            <<[stringValue |-> <<"x">>, numberValue |-> Undefined],
              [stringValue |-> Undefined, numberValue |-> 0]>>

\* the rules of a compiled group rule that are set
Populated(compiled) ==
    {name \in {"dateTimeRule", "histogramRule", "manualRule"} : compiled[name] # Undefined}

\* C23: buildGroupRule throws "Invalid group rule" for a rule with none of
\* date_time, histogram and manual, and for any other rule returns a rule
\* with exactly one of dateTimeRule, histogramRule and manualRule set, the
\* one of the input's key, the type of a date_time rule unchanged.
C23_GroupRuleTag ==
    ret # Pending =>
        /\ arg.keys \cap {"date_time", "histogram", "manual"} = {} =>
              ret = Throw(InvalidGroupRule)
        /\ arg.keys = {"date_time"} =>
              /\ ret.t = "return"
              /\ Populated(ret.v) = {"dateTimeRule"}
              /\ ret.v.dateTimeRule = [type |-> arg.date_time.type]
        /\ arg.keys = {"histogram"} =>
              /\ ret.t = "return"
              /\ Populated(ret.v) = {"histogramRule"}
        /\ arg.keys = {"manual"} =>
              /\ ret.t = "return"
              /\ Populated(ret.v) = {"manualRule"}

C23_Witness ==
    /\ arg = NoTagRule
    /\ ret = Throw(InvalidGroupRule)

C23_WitnessTagged ==
    /\ arg.keys = {"date_time"}
    /\ arg.date_time.type = "YEAR_MONTH"
    /\ ret # Pending
    /\ ret.v.dateTimeRule = [type |-> "YEAR_MONTH"]
    /\ ret.v.histogramRule = Undefined

-----------------------------------------------------------------------------
(* Properties of the result of a failed invocation.                        *)

\* the steps of the handler a failure can come from
HandlerSteps == {"parse", "resolve", "create", "compile", "update"}

\* the calls invocation i has made when it fails at step
CallsAtFailure(step) ==
    CASE step = "parse" -> {<<>>}
      [] step = "resolve" -> {<<"get">>}
      [] step = "create" -> {<<"get", "addSheet">>}
      [] step = "compile" -> {<<"get">>, <<"get", "addSheet">>}
      [] step = "update" -> {<<"get", "updateCells">>,
                             <<"get", "addSheet", "updateCells">>}

\* C28: a failure of the range parsing, the sheet lookup, the sheet
\* creation, the compilation or the pivot update ends the invocation with a
\* result of one text item, the rendered error, and no structuredContent;
\* every request sent has been answered and none follows the failure.
C28_ErrorResult ==
    \A i \in Invocations :
        handler[i].thrownAt \in HandlerSteps =>
            /\ handler[i].pc = "done"
            /\ handler[i].result # Undefined
            /\ Len(handler[i].result.content) = 1
            /\ handler[i].result.content[1].type = "text"
            /\ \E error \in {InvalidRangeFormat, SheetNotFound, RequestFailed,
                              FailedToCreate, InvalidGroupRule} :
                  handler[i].result = ErrorResult(error)
            /\ handler[i].result.structuredContent = Undefined
            /\ Len(handler[i].replies) = Len(handler[i].calls)
            /\ OpsOf(i) \in CallsAtFailure(handler[i].thrownAt)
            /\ \A w \in written : w[1] # i

C28_Witness ==
    \E i \in Invocations :
        /\ handler[i].thrownAt = "create"
        /\ handler[i].pc = "done"
        /\ handler[i].result = ErrorResult(FailedToCreate)
        /\ OpsOf(i) = <<"get", "addSheet">>

C28_WitnessParse ==
    \E i \in Invocations :
        /\ handler[i].thrownAt = "parse"
        /\ handler[i].result = ErrorResult(InvalidRangeFormat)
        /\ handler[i].calls = <<>>

C28_WitnessUpdate ==
    \E i \in Invocations :
        /\ handler[i].thrownAt = "update"
        /\ handler[i].result = ErrorResult(RequestFailed)
        /\ OpsOf(i) = <<"get", "updateCells">>

====
